---- MODULE Spec2Model ----
(***************************************************************************)
(* A model of rusoto's ProfileProvider (credential/src/profile.rs): the    *)
(* line classifier, the two section grammars, the file parser, the profile *)
(* store and the credential extraction; and of the xml cursor of           *)
(* core/src/xmlutil.rs with the error deserializer of                      *)
(* core/src/xmlerror.rs.                                                   *)
(*                                                                         *)
(* A Rust &str is a sequence of one-character strings.  Option<T> is a     *)
(* sequence of length at most one: None is << >>, Some(x) is << x >>.      *)
(***************************************************************************)
EXTENDS Integers, Sequences, FiniteSets, TLC

VARIABLES
    \* ---- the line under classification (specification LineSpec)
    line,               \* the raw line, a sequence of characters
    chunks,             \* how many pieces the line was built from
    applied,            \* TRUE once the functions below were applied to line
    r_comment,          \* is_comment_or_empty(line)
    r_cred,             \* extract_profile(line)
    r_conf,             \* extract_profile_with_profile_prefix(line)
    r_prop,             \* extract_property(line)
    r_cont,             \* extract_continuation(line)
    r_kind,             \* what the loop of parse_internal takes line for, per file
                        \* and value of invalid_profile
    \* ---- ProfileProvider and one credentials() call (specification Spec)
    profile,            \* ProfileProvider::profile
    pc,                 \* where the call is: idle, open, lines, resolve, done
    file,               \* the file parse_internal is reading
    no,                 \* lines of the file read so far (enumerate())
    profiles,           \* Config::profiles
    current_profile,    \* locals of parse_internal
    invalid_profile,
    current_key,
    current_value,
    cred_result,        \* "none", "ok" or "err"
    config_result,
    e_creds,            \* the error of an "err" result: "open failed" or
    e_config,           \* "read failed"; "none" otherwise
    outcome,            \* what the returned future resolves to
    \* ---- what the lines read say by construction (never read by the code)
    \* of the file being read:
    g_open,             \* the profile the last header line declares, if valid
    g_bad,              \* "none"; "bad" after a malformed header; "ignoring" once a
                        \* line of the malformed section was read; "recovered" after
                        \* the valid header that follows one
    g_pending,          \* the pair the last key-value line and its continuations spell
    g_last,             \* the kind of the last line read
    g_flush,            \* what the last step did to the store
    g_sec,              \* per profile declared: how far its section matches the shape
                        \* header, access key line, secret key line
    g_clean,            \* no malformed header, unrecognized or stray line so far
    \* of the call:
    g_cred,             \* the store as the parse of the credentials file left it
    g_wf,               \* the sections of the credentials file, if it was well-formed
    g_tok,              \* a line defining aws_security_token was read
    g_io,               \* the files whose open or read failed
    \* of the provider:
    g_prev,             \* the outcome of the request finished before the current
                        \* one started, when the history is recorded (on)
    \* ---- the future credentials() returned
    polled,             \* what its first poll gave, None while not polled
    \* ---- ProfileProvider::new (specification NewSpec)
    env,                \* the environment variables and the home directory
    provider,           \* what new() returned, None while not called
    \* ---- XmlResponse and the functions over it (specifications XmlSpec, ErrorSpec)
    events,             \* the items the xml reader yields, first to last
    xml_stack,          \* XmlResponse::xml_stack: the items not consumed yet
    x_pc,               \* idle, or where the running function is
    x_op,               \* the function called last
    x_arg,              \* its name argument, "" when it takes none
    x_ret,              \* what it returned
    x_at,               \* xml_stack when it, or the skip_tree it runs, was called
    deep,               \* the local of skip_tree
    obj,                \* the local of XmlErrorDeserializer::deserialize
    g_delivered         \* the items Next::next returned so far, in order

lineVars == <<line, chunks, applied, r_comment, r_cred, r_conf, r_prop, r_cont, r_kind>>
callVars == <<profile, pc, file, no, profiles, current_profile, invalid_profile,
              current_key, current_value, cred_result, config_result, outcome,
              polled, e_creds, e_config>>
fileGhosts == <<g_open, g_bad, g_pending, g_last, g_flush, g_sec, g_clean>>
callGhosts == <<g_cred, g_wf, g_tok, g_io>>
ghostVars == <<fileGhosts, callGhosts, g_prev>>
envVars == <<env, provider>>
xmlVars == <<events, xml_stack, x_pc, x_op, x_arg, x_ret, x_at, deep, obj, g_delivered>>
vars == <<lineVars, callVars, ghostVars, envVars, xmlVars>>

----------------------------------------------------------------------------
(* Option<T> *)

None == << >>
Some(x) == << x >>
IsSome(o) == o # << >>
Unwrap(o) == o[1]

----------------------------------------------------------------------------
(* Characters *)

Lower == {"a","b","c","d","e","f","g","h","i","j","k","l","m",
          "n","o","p","q","r","s","t","u","v","w","x","y","z"}
Upper == {"A","B","C","D","E","F","G","H","I","J","K","L","M",
          "N","O","P","Q","R","S","T","U","V","W","X","Y","Z"}
Digit == {"0","1","2","3","4","5","6","7","8","9"}

\* the character class of IS_VALID_IDENTIFIER, "^[A-Za-z0-9_\\-]*$"
IdentChar == Lower \cup Upper \cup Digit \cup {"_", "-"}

\* char::is_whitespace, which str::trim and str::trim_right use
White_Space == {" ", "\t", "\n", "\r", "\f"}

----------------------------------------------------------------------------
(* str methods *)

\* str::starts_with(pat)
starts_with(s, pat) ==
    Len(s) >= Len(pat) /\ SubSeq(s, 1, Len(pat)) = pat

\* str::ends_with(pat)
ends_with(s, pat) ==
    Len(s) >= Len(pat) /\ SubSeq(s, Len(s) - Len(pat) + 1, Len(s)) = pat

\* str::trim_left
trim_left(s) ==
    LET keep == {i \in 1..Len(s) : s[i] \notin White_Space}
    IN  IF keep = {} THEN << >>
        ELSE SubSeq(s, CHOOSE i \in keep : \A j \in keep : i <= j, Len(s))

\* str::trim_right
trim_right(s) ==
    LET keep == {i \in 1..Len(s) : s[i] \notin White_Space}
    IN  IF keep = {} THEN << >>
        ELSE SubSeq(s, 1, CHOOSE i \in keep : \A j \in keep : i >= j)

\* str::trim
trim(s) == trim_left(trim_right(s))

\* s.split(|c| c \in set).next().unwrap(): the text before the first
\* character of the set, all of s when there is none
split_first(s, set) ==
    LET hit == {i \in 1..Len(s) : s[i] \in set}
    IN  IF hit = {} THEN s
        ELSE SubSeq(s, 1, (CHOOSE i \in hit : \A j \in hit : i <= j) - 1)

\* s.split(pat).next().unwrap() for a string pattern: the text before the
\* first occurrence of pat, all of s when there is none
split_first_str(s, pat) ==
    LET hit == {i \in 1..(Len(s) - Len(pat) + 1) :
                    SubSeq(s, i, i + Len(pat) - 1) = pat}
    IN  IF hit = {} THEN s
        ELSE SubSeq(s, 1, (CHOOSE i \in hit : \A j \in hit : i <= j) - 1)

\* IS_VALID_IDENTIFIER.is_match(s)
IS_VALID_IDENTIFIER(s) == \A i \in 1..Len(s) : s[i] \in IdentChar

----------------------------------------------------------------------------
(* Constants of profile.rs *)

DEFAULT == <<"d","e","f","a","u","l","t">>
PROFILE == <<"p","r","o","f","i","l","e">>

\* the offset of &name[8..] in extract_profile_with_profile_prefix
ProfilePrefixLen == 8

\* Result<&str, ()> of the profile extractors
Ok(name) == [ok |-> TRUE, name |-> name]
Err == [ok |-> FALSE, name |-> << >>]

----------------------------------------------------------------------------
(* The line classifier and the section grammars *)

\* a variant that trims the line before looking at its first character
is_comment_or_empty_trimmed(l) ==
    LET t == trim_left(l)
    IN  starts_with(t, <<"#">>) \/ starts_with(t, <<";">>) \/ t = << >>

is_comment_or_empty(l) ==
    \/ starts_with(l, <<"#">>)
    \/ starts_with(l, <<";">>)
    \/ ~ \E i \in 1..Len(l) : l[i] # " " /\ l[i] # "\t"

\* a variant that accepts the "profile " prefix in the credentials grammar too
extract_profile_stripping(l) ==
    IF ~ starts_with(l, <<"[">>) THEN None
    ELSE LET name == trim_right(split_first(l, {"#", ";"}))
         IN  IF ends_with(name, <<"]">>)
             THEN LET inner == trim(SubSeq(name, 2, Len(name) - 1))
                      bare == IF starts_with(inner, PROFILE \o <<" ">>)
                              THEN SubSeq(inner, ProfilePrefixLen + 1, Len(inner))
                              ELSE inner
                  IN  IF IS_VALID_IDENTIFIER(bare)
                      THEN Some(Ok(bare))
                      ELSE Some(Err)
             ELSE Some(Err)

extract_profile(l) ==
    IF ~ starts_with(l, <<"[">>) THEN None
    ELSE LET name == trim_right(split_first(l, {"#", ";"}))
         IN  IF ends_with(name, <<"]">>)
             THEN LET inner == trim(SubSeq(name, 2, Len(name) - 1))
                  IN  IF IS_VALID_IDENTIFIER(inner)
                      THEN Some(Ok(inner))
                      ELSE Some(Err)
             ELSE Some(Err)

\* a variant that accepts a bare name without the "profile" keyword
extract_profile_with_profile_prefix_lax(l) ==
    IF ~ starts_with(l, <<"[">>) THEN None
    ELSE LET name == trim_right(split_first(l, {"#", ";"}))
         IN  IF ends_with(name, <<"]">>)
             THEN LET inner == trim(SubSeq(name, 2, Len(name) - 1))
                  IN  IF inner = DEFAULT
                      THEN Some(Ok(DEFAULT))
                      ELSE IF \/ starts_with(inner, PROFILE \o <<" ">>)
                              \/ starts_with(inner, PROFILE \o <<"\t">>)
                           THEN LET rest == SubSeq(inner, ProfilePrefixLen + 1, Len(inner))
                                IN  IF IS_VALID_IDENTIFIER(rest)
                                    THEN Some(Ok(rest))
                                    ELSE Some(Err)
                           ELSE IF IS_VALID_IDENTIFIER(inner)
                                THEN Some(Ok(inner))
                                ELSE Some(Err)
             ELSE Some(Err)

extract_profile_with_profile_prefix(l) ==
    IF ~ starts_with(l, <<"[">>) THEN None
    ELSE LET name == trim_right(split_first(l, {"#", ";"}))
         IN  IF ends_with(name, <<"]">>)
             THEN LET inner == trim(SubSeq(name, 2, Len(name) - 1))
                  IN  IF inner = DEFAULT
                      THEN Some(Ok(DEFAULT))
                      ELSE IF \/ starts_with(inner, PROFILE \o <<" ">>)
                              \/ starts_with(inner, PROFILE \o <<"\t">>)
                           THEN LET rest == SubSeq(inner, ProfilePrefixLen + 1, Len(inner))
                                IN  IF IS_VALID_IDENTIFIER(rest)
                                    THEN Some(Ok(rest))
                                    ELSE Some(Err)
                           ELSE Some(Err)
             ELSE Some(Err)

\* a variant that cuts the value at any '#' or ';'
remove_comment_any(value) == split_first(value, {"#", ";"})

remove_comment(value) ==
    split_first_str(
        split_first_str(
            split_first_str(
                split_first_str(value, <<" ", "#">>),
                <<" ", ";">>),
            <<"\t", "#">>),
        <<"\t", ";">>)

\* a variant that does not check the key against IS_VALID_IDENTIFIER
extract_property_unchecked(l) ==
    LET eq == {i \in 1..Len(l) : l[i] = "="}
        at == IF eq = {} THEN Len(l) + 1 ELSE CHOOSE i \in eq : \A j \in eq : i <= j
    IN  IF eq = {} THEN None
        ELSE Some([key |-> trim(SubSeq(l, 1, at - 1)),
                   value |-> trim(remove_comment(SubSeq(l, at + 1, Len(l))))])

\* line.splitn(2, '='): the text before the first '=', and the text after it
\* when there is one
extract_property(l) ==
    LET eq == {i \in 1..Len(l) : l[i] = "="}
        at == IF eq = {} THEN Len(l) + 1 ELSE CHOOSE i \in eq : \A j \in eq : i <= j
        key == trim(SubSeq(l, 1, at - 1))
    IN  IF ~ IS_VALID_IDENTIFIER(key) THEN None
        ELSE IF eq = {} THEN None
        ELSE Some([key |-> key,
                   value |-> trim(remove_comment(SubSeq(l, at + 1, Len(l))))])

extract_continuation(l) ==
    IF starts_with(l, <<" ">>) \/ starts_with(l, <<"\t">>)
    THEN Some(trim(l))
    ELSE None

----------------------------------------------------------------------------
(* The property keys credentials_from_config reads *)

AWS_ACCESS_KEY_ID ==
    <<"a","w","s","_","a","c","c","e","s","s","_","k","e","y","_","i","d">>
AWS_SECRET_ACCESS_KEY ==
    <<"a","w","s","_","s","e","c","r","e","t","_","a","c","c","e","s","s","_","k","e","y">>
AWS_SECURITY_TOKEN ==
    <<"a","w","s","_","s","e","c","u","r","i","t","y","_","t","o","k","e","n">>

----------------------------------------------------------------------------
(* HashMap<K, V>: a function whose domain is the set of keys present *)

EmptyMap == [x \in {} |-> << >>]
contains_key(m, k) == k \in DOMAIN m
insert(m, k, v) == [x \in DOMAIN m \cup {k} |-> IF x = k THEN v ELSE m[x]]
\* HashMap::remove: the value removed, if any, and the map left
remove(m, k) ==
    [value |-> IF k \in DOMAIN m THEN Some(m[k]) ELSE None,
     map |-> [x \in DOMAIN m \ {k} |-> m[x]]]

----------------------------------------------------------------------------
(* The lines a file is made of.  Each line is given with what it is by     *)
(* construction: its kind, and for a header the profile it declares in     *)
(* the credentials grammar (cred) and in the config grammar (conf), for a  *)
(* key-value line its key and value, for a continuation its content.  The  *)
(* parser reads only the text.                                             *)

P == <<"p">>
A1 == <<"A","1">>
A2 == <<"A","2">>
S1 == <<"S","1">>
T1 == <<"T","1">>
X == <<"x">>

Line(text, kind, cred, conf, key, val) ==
    [text |-> text, kind |-> kind, cred |-> cred, conf |-> conf,
     key |-> key, val |-> val]
Skip(text, kind) == Line(text, kind, None, None, << >>, << >>)
Header(text, cred, conf) == Line(text, "header", cred, conf, << >>, << >>)
KeyValue(text, key, val) == Line(text, "kv", None, None, key, val)
Continuation(text, val) == Line(text, "cont", None, None, << >>, val)

L_EMPTY == Skip(<< >>, "blank")
L_BLANK == Skip(<<" ", "\t">>, "blank")
L_HASH == Skip(<<"#", " ", "c">>, "comment")
L_SEMI == Skip(<<";", "c">>, "comment")
L_JUNK == Skip(<<"z", "z">>, "junk")
L_BADKEY == Skip(<<"a", " ", "b", "=", "1">>, "junk")
L_P == Header(<<"[", "p", "]">>, Some(P), None)
L_DEFAULT_C == Header(<<"[", " ">> \o DEFAULT \o <<"\t", "]", " ", "#", "c">>,
                      Some(DEFAULT), Some(DEFAULT))
L_PROFILE_P == Header(<<"[">> \o PROFILE \o <<" ", "p", "]">>, None, Some(P))
L_DEFAULT == Header(<<"[">> \o DEFAULT \o <<"]">>, Some(DEFAULT), Some(DEFAULT))
L_BANG == Header(<<"[", "!", "]">>, None, None)
L_UNCLOSED == Header(<<"[", "p">>, None, None)
L_AK1 == KeyValue(AWS_ACCESS_KEY_ID \o <<"=">> \o A1, AWS_ACCESS_KEY_ID, A1)
L_AK2 == KeyValue(AWS_ACCESS_KEY_ID \o <<" ", "=", " ">> \o A2 \o <<" ", "#", "c">>,
                  AWS_ACCESS_KEY_ID, A2)
L_SK1 == KeyValue(AWS_SECRET_ACCESS_KEY \o <<"=">> \o S1, AWS_SECRET_ACCESS_KEY, S1)
L_TOK == KeyValue(AWS_SECURITY_TOKEN \o <<"=">> \o T1, AWS_SECURITY_TOKEN, T1)
L_CONT == Continuation(<<" ">> \o X, X)
L_CONT_TAB == Continuation(<<"\t">> \o X \o <<" ">>, X)

Lines == { L_EMPTY, L_BLANK, L_HASH, L_SEMI, L_JUNK, L_BADKEY,
           L_P, L_PROFILE_P, L_DEFAULT, L_DEFAULT_C, L_BANG, L_UNCLOSED,
           L_AK1, L_AK2, L_SK1, L_TOK, L_CONT, L_CONT_TAB }

\* a key-value line with nothing after the '='
L_AK_EMPTY == KeyValue(AWS_ACCESS_KEY_ID \o <<"=">>, AWS_ACCESS_KEY_ID, << >>)

\* the lines of the files in a sequence of requests (RequestsSpec)
RequestLines == { L_P, L_PROFILE_P, L_AK1, L_AK2, L_AK_EMPTY, L_SK1 }

\* the profile names a caller asks for
ProfileNames == { P, DEFAULT }

\* the credentials file has at most MaxLines lines, the config file at most
\* MaxConfigLines
MaxLines == 6
MaxConfigLines == 2

----------------------------------------------------------------------------
(* Config *)

\* a variant that gives a profile without a pending pair an empty entry
add_property_or_profile(store, prof, key, value) ==
    IF IsSome(prof)
    THEN IF IsSome(key) /\ IsSome(value)
         THEN IF contains_key(store, Unwrap(prof))
              THEN IF contains_key(store[Unwrap(prof)], Unwrap(key))
                   THEN store
                   ELSE insert(store, Unwrap(prof),
                               insert(store[Unwrap(prof)], Unwrap(key), Unwrap(value)))
              ELSE insert(store, Unwrap(prof), insert(EmptyMap, Unwrap(key), Unwrap(value)))
         ELSE IF contains_key(store, Unwrap(prof)) THEN store
              ELSE insert(store, Unwrap(prof), EmptyMap)
    ELSE store

\* a variant in which the first section of a profile wins as a whole: a
\* profile the store holds gets no further key
add_property_first_section(store, prof, key, value) ==
    IF IsSome(prof) /\ IsSome(key) /\ IsSome(value)
    THEN IF contains_key(store, Unwrap(prof)) THEN store
         ELSE insert(store, Unwrap(prof), insert(EmptyMap, Unwrap(key), Unwrap(value)))
    ELSE store

\* a variant in which a later value replaces the stored one
add_property_last_wins(store, prof, key, value) ==
    IF IsSome(prof) /\ IsSome(key) /\ IsSome(value)
    THEN insert(store, Unwrap(prof),
                insert(IF contains_key(store, Unwrap(prof))
                       THEN store[Unwrap(prof)] ELSE EmptyMap,
                       Unwrap(key), Unwrap(value)))
    ELSE store

\* Config::add_property_if_any: the store after the call
add_property_if_any(store, prof, key, value) ==
    IF IsSome(prof)
    THEN IF IsSome(key) /\ IsSome(value)
         THEN IF contains_key(store, Unwrap(prof))
              THEN \* and_modify: entry(key).or_insert_with(value)
                   IF contains_key(store[Unwrap(prof)], Unwrap(key))
                   THEN store
                   ELSE insert(store, Unwrap(prof),
                               insert(store[Unwrap(prof)], Unwrap(key), Unwrap(value)))
              ELSE \* or_insert_with: a new map holding the pair
                   insert(store, Unwrap(prof), insert(EmptyMap, Unwrap(key), Unwrap(value)))
         ELSE store
    ELSE store

\* a variant that hands the config grammar to both parses
profile_extractor_same(f, l) == extract_profile_with_profile_prefix(l)

\* the section grammar parse_credentials resp. parse_config hands to
\* parse_internal
profile_extractor(f, l) ==
    IF f = "credentials" THEN extract_profile(l)
    ELSE extract_profile_with_profile_prefix(l)

\* a variant of the branches of the loop that tries a key-value pair before a
\* continuation
classify_property_first(comment, header, invalid, continuation, property) ==
    IF comment THEN "comment"
    ELSE IF IsSome(header) THEN "header"
    ELSE IF invalid THEN "ignored"
    ELSE IF IsSome(property) THEN "property"
    ELSE IF IsSome(continuation) THEN "continuation"
    ELSE "unrecognized"

\* the branch the loop of parse_internal takes for a line, given what the
\* line functions return for it and the value of invalid_profile
classify(comment, header, invalid, continuation, property) ==
    IF comment THEN "comment"
    ELSE IF IsSome(header) THEN "header"
    ELSE IF invalid THEN "ignored"
    ELSE IF IsSome(continuation) THEN "continuation"
    ELSE IF IsSome(property) THEN "property"
    ELSE "unrecognized"

\* r_kind before the line functions were applied
NoKind == [f \in {"credentials", "config"}, inv \in BOOLEAN |-> "none"]

----------------------------------------------------------------------------
(* ProfileProvider::new.  A path is a sequence of its pieces, "/" being    *)
(* the separator; env gives each environment variable as an Option, and    *)
(* home what home_dir() returns.                                           *)

BAR == <<"b","a","r">>
HomePath == <<"/", "h">>
CredentialsEnvPath == <<"/", "c">>
ConfigEnvPath == <<"/", "g">>

\* env::home_dir()
home_dir(e) == e.home

\* PathBuf::push of a relative piece
push(path, piece) ==
    IF path = << >> \/ path[Len(path)] = "/"
    THEN path \o <<piece>>
    ELSE path \o <<"/", piece>>

\* non_empty_env_var: the value of the variable if it is set and not empty
non_empty_env_var(e, name) ==
    IF IsSome(e[name]) /\ Unwrap(e[name]) # << >> THEN e[name] ELSE None

\* Result<PathBuf, CredentialsError>
PathOk(path) == [ok |-> TRUE, path |-> path, error |-> ""]
HomeError ==
    [ok |-> FALSE, path |-> << >>,
     error |-> "The environment variable HOME must be set."]

hardcoded_location_of(e, name) ==
    IF IsSome(home_dir(e))
    THEN PathOk(push(push(Unwrap(home_dir(e)), ".aws"), name))
    ELSE HomeError

default_location_of(e, var, name) ==
    LET value == non_empty_env_var(e, var)
    IN  IF IsSome(value) THEN PathOk(Unwrap(value))
        ELSE hardcoded_location_of(e, name)

\* a variant that looks the config path up under the credentials variable
default_config_location_swapped(e) ==
    default_location_of(e, "AWS_SHARED_CREDENTIALS_FILE", "config")

default_config_location(e) ==
    default_location_of(e, "AWS_SHARED_CONFIG_FILE", "config")

default_credentials_location(e) ==
    default_location_of(e, "AWS_SHARED_CREDENTIALS_FILE", "credentials")

default_profile_name(e) ==
    LET value == non_empty_env_var(e, "AWS_PROFILE")
    IN  IF IsSome(value) THEN Unwrap(value) ELSE DEFAULT

\* Result<ProfileProvider, CredentialsError>
NewError(error) ==
    [ok |-> FALSE, config_file_path |-> None, credentials_file_path |-> None,
     profile |-> << >>, error |-> error]

\* ProfileProvider::new
new(e) ==
    LET credentials_location == default_credentials_location(e)
        config_location == default_config_location(e)
    IN  IF ~ credentials_location.ok THEN NewError(credentials_location.error)
        ELSE IF ~ config_location.ok THEN NewError(config_location.error)
        ELSE [ok |-> TRUE,
              config_file_path |-> Some(config_location.path),
              credentials_file_path |-> Some(credentials_location.path),
              profile |-> default_profile_name(e),
              error |-> ""]

\* an environment with no variable set and a home directory
PlainEnv ==
    [AWS_PROFILE |-> None, AWS_SHARED_CONFIG_FILE |-> None,
     AWS_SHARED_CREDENTIALS_FILE |-> None, home |-> Some(HomePath)]

\* the environments new() is called in
Envs ==
    [AWS_PROFILE : {None, Some(<< >>), Some(BAR), Some(P)},
     AWS_SHARED_CONFIG_FILE : {None, Some(<< >>), Some(ConfigEnvPath)},
     AWS_SHARED_CREDENTIALS_FILE : {None, Some(<< >>), Some(CredentialsEnvPath)},
     home : {None, Some(HomePath)}]

\* the provider the requests are made on: the one new() makes in PlainEnv
credentials_file_path == new(PlainEnv).credentials_file_path
config_file_path == new(PlainEnv).config_file_path

----------------------------------------------------------------------------
(* ProfileProvider::credentials_from_config *)

\* Async::NotReady
NotReady ==
    [kind |-> "not ready", profile |-> << >>, access_key |-> << >>,
     secret_key |-> << >>, token |-> None, detail |-> << >>]

NoOutcome == [kind |-> "none", profile |-> << >>, access_key |-> << >>,
              secret_key |-> << >>, token |-> None, detail |-> << >>]
Error(kind, prof) == [kind |-> kind, profile |-> prof, access_key |-> << >>,
                      secret_key |-> << >>, token |-> None, detail |-> << >>]
AwsCredentials(access_key, secret_key, token) ==
    [kind |-> "credentials", profile |-> << >>, access_key |-> access_key,
     secret_key |-> secret_key, token |-> token, detail |-> << >>]
\* the error of parse_config_files: the two paths, each with its error
NeitherRead(cred_path, e1, conf_path, e2) ==
    [kind |-> "neither file could be read", profile |-> << >>,
     access_key |-> << >>, secret_key |-> << >>, token |-> None,
     detail |-> <<cred_path, e1, conf_path, e2>>]

\* a variant that reads the properties without removing them, so that the
\* token lookup finds the secret key
credentials_from_config_peek(prof, properties) ==
    LET aws_access_key_id == remove(properties, AWS_ACCESS_KEY_ID).value
        aws_secret_access_key == remove(properties, AWS_SECRET_ACCESS_KEY).value
        aws_session_token ==
            IF contains_key(properties, AWS_SECRET_ACCESS_KEY)
            THEN remove(properties, AWS_SECRET_ACCESS_KEY).value
            ELSE remove(properties, AWS_SECURITY_TOKEN).value
    IN  IF IsSome(aws_access_key_id) /\ IsSome(aws_secret_access_key)
        THEN AwsCredentials(Unwrap(aws_access_key_id), Unwrap(aws_secret_access_key),
                            aws_session_token)
        ELSE IF IsSome(aws_access_key_id) THEN Error("missing secret key", prof)
        ELSE IF IsSome(aws_secret_access_key) THEN Error("missing access key", prof)
        ELSE Error("missing access and secret key", prof)

\* a variant that mixes up the two errors for a single missing key
credentials_from_config_swapped(prof, properties) ==
    LET r1 == remove(properties, AWS_ACCESS_KEY_ID)
        r2 == remove(r1.map, AWS_SECRET_ACCESS_KEY)
        r3 == remove(r2.map, AWS_SECRET_ACCESS_KEY)
        r4 == remove(r3.map, AWS_SECURITY_TOKEN)
        aws_access_key_id == r1.value
        aws_secret_access_key == r2.value
        aws_session_token == IF IsSome(r3.value) THEN r3.value ELSE r4.value
    IN  IF IsSome(aws_access_key_id) /\ IsSome(aws_secret_access_key)
        THEN AwsCredentials(Unwrap(aws_access_key_id), Unwrap(aws_secret_access_key),
                            aws_session_token)
        ELSE IF IsSome(aws_access_key_id) THEN Error("missing access key", prof)
        ELSE IF IsSome(aws_secret_access_key) THEN Error("missing secret key", prof)
        ELSE Error("missing access and secret key", prof)

credentials_from_config(prof, properties) ==
    LET r1 == remove(properties, AWS_ACCESS_KEY_ID)
        r2 == remove(r1.map, AWS_SECRET_ACCESS_KEY)
        r3 == remove(r2.map, AWS_SECRET_ACCESS_KEY)
        r4 == remove(r3.map, AWS_SECURITY_TOKEN)
        aws_access_key_id == r1.value
        aws_secret_access_key == r2.value
        aws_session_token == IF IsSome(r3.value) THEN r3.value ELSE r4.value
    IN  IF IsSome(aws_access_key_id) /\ IsSome(aws_secret_access_key)
        THEN AwsCredentials(Unwrap(aws_access_key_id), Unwrap(aws_secret_access_key),
                            aws_session_token)
        ELSE IF IsSome(aws_access_key_id) THEN Error("missing secret key", prof)
        ELSE IF IsSome(aws_secret_access_key) THEN Error("missing access key", prof)
        ELSE Error("missing access and secret key", prof)

\* a variant that falls back to the default profile when the requested one is
\* not in the store
resolve_default(cred, e1, conf, e2, store, prof) ==
    IF cred = "err" /\ conf = "err"
    THEN NeitherRead(credentials_file_path, e1, config_file_path, e2)
    ELSE IF contains_key(store, prof)
         THEN credentials_from_config(prof, remove(store, prof).value[1])
         ELSE IF contains_key(store, DEFAULT)
         THEN credentials_from_config(DEFAULT, remove(store, DEFAULT).value[1])
         ELSE Error("profile not found", prof)

\* a variant in which the failure of one file is not ignored
resolve_any_error(cred, e1, conf, e2, store, prof) ==
    IF cred = "err" \/ conf = "err"
    THEN NeitherRead(credentials_file_path, e1, config_file_path, e2)
    ELSE IF contains_key(store, prof)
         THEN credentials_from_config(prof, remove(store, prof).value[1])
         ELSE Error("profile not found", prof)

\* ProfileProvider::credentials once both files were parsed: the match of
\* parse_config_files, then remove_profile and credentials_from_config
resolve(cred, e1, conf, e2, store, prof) ==
    IF cred = "err" /\ conf = "err"
    THEN NeitherRead(credentials_file_path, e1, config_file_path, e2)
    ELSE IF contains_key(store, prof)
         THEN credentials_from_config(prof, remove(store, prof).value[1])
         ELSE Error("profile not found", prof)

----------------------------------------------------------------------------
(* What the lines read say by construction *)

NoSection == [status |-> "spoiled", ak |-> << >>, sk |-> << >>]

\* the section of the open profile ends: it has the shape only if complete
CloseSection(sec, open) ==
    IF IsSome(open) /\ sec[Unwrap(open)].status \in {"open", "ak"}
    THEN insert(sec, Unwrap(open), NoSection)
    ELSE sec

\* the sections of a file read to its end make a well-formed file
WellFormed(sec, clean) ==
    /\ clean
    /\ DOMAIN sec # {}
    /\ \A n \in DOMAIN sec : sec[n].status = "full"

GhostInit ==
    /\ g_open = None
    /\ g_bad = "none"
    /\ g_pending = None
    /\ g_last = "none"
    /\ g_flush = "none"
    /\ g_sec = EmptyMap
    /\ g_clean = TRUE
    /\ g_cred = EmptyMap
    /\ g_wf = EmptyMap
    /\ g_tok = FALSE
    /\ g_io = {}

FreshFileGhosts ==
    /\ g_open' = None
    /\ g_bad' = "none"
    /\ g_pending' = None
    /\ g_last' = "none"
    /\ g_flush' = "none"
    /\ g_sec' = EmptyMap
    /\ g_clean' = TRUE

FreshCallGhosts ==
    /\ g_cred' = EmptyMap
    /\ g_wf' = EmptyMap
    /\ g_tok' = FALSE
    /\ g_io' = {}

\* what a call of add_property_if_any did, read off the store before it
Flushed(store, prof, key, value) ==
    IF ~ (IsSome(prof) /\ IsSome(key) /\ IsSome(value)) THEN "none"
    ELSE IF ~ contains_key(store, Unwrap(prof)) THEN "inserted"
    ELSE IF ~ contains_key(store[Unwrap(prof)], Unwrap(key)) THEN "inserted"
    ELSE IF store[Unwrap(prof)][Unwrap(key)] = Unwrap(value) THEN "repeated"
    ELSE "shadowed"

\* line l of the file was read
GhostRead(l) ==
    LET declared == IF file = "credentials" THEN l.cred ELSE l.conf
        header == l.kind = "header"
        content == l.kind \in {"kv", "cont", "junk"}
    IN  /\ g_last' = l.kind
        /\ g_open' = IF header THEN declared ELSE g_open
        /\ g_bad' = IF header /\ ~ IsSome(declared) THEN "bad"
                    ELSE IF header
                    THEN (IF g_bad \in {"ignoring", "recovered"}
                          THEN "recovered" ELSE "none")
                    ELSE IF content /\ g_bad \in {"bad", "ignoring"} THEN "ignoring"
                    ELSE g_bad
        /\ g_pending' =
              IF header THEN None
              ELSE IF l.kind = "kv" /\ IsSome(g_open)
              THEN Some([key |-> l.key, val |-> l.val])
              ELSE IF l.kind = "cont" /\ IsSome(g_open) /\ IsSome(g_pending)
              THEN Some([key |-> Unwrap(g_pending).key,
                         val |-> Unwrap(g_pending).val \o l.val])
              ELSE g_pending
        /\ g_tok' = (g_tok \/ (l.kind = "kv" /\ l.key = AWS_SECURITY_TOKEN))
        /\ g_clean' = (/\ g_clean
                       /\ ~ (header /\ ~ IsSome(declared))
                       /\ l.kind # "junk"
                       /\ ~ (l.kind = "kv" /\ ~ IsSome(g_open))
                       /\ ~ (l.kind = "cont" /\ ~ IsSome(g_pending)))
        /\ g_sec' =
              IF header
              THEN LET closed == CloseSection(g_sec, g_open)
                   IN  IF ~ IsSome(declared) THEN closed
                       ELSE IF contains_key(closed, Unwrap(declared))
                       THEN insert(closed, Unwrap(declared), NoSection)
                       ELSE insert(closed, Unwrap(declared),
                                   [status |-> "open", ak |-> << >>, sk |-> << >>])
              ELSE IF content /\ IsSome(g_open)
              THEN LET now == g_sec[Unwrap(g_open)]
                   IN  insert(g_sec, Unwrap(g_open),
                          IF /\ now.status = "open"
                             /\ l.kind = "kv" /\ l.key = AWS_ACCESS_KEY_ID
                          THEN [status |-> "ak", ak |-> l.val, sk |-> << >>]
                          ELSE IF /\ now.status = "ak"
                                  /\ l.kind = "kv" /\ l.key = AWS_SECRET_ACCESS_KEY
                          THEN [status |-> "full", ak |-> now.ak, sk |-> l.val]
                          ELSE NoSection)
              ELSE g_sec

\* the parse of the file ends with result res, the store being left as store
GhostReturn(res, store) ==
    /\ g_sec' = IF res = "ok" THEN CloseSection(g_sec, g_open) ELSE EmptyMap
    /\ g_clean' = (g_clean /\ res = "ok")
    /\ IF file = "credentials"
       THEN /\ g_cred' = store
            /\ g_wf' = IF res = "ok" /\ WellFormed(CloseSection(g_sec, g_open), g_clean)
                       THEN CloseSection(g_sec, g_open) ELSE EmptyMap
       ELSE UNCHANGED <<g_cred, g_wf>>
    /\ g_io' = IF res = "err" THEN g_io \cup {file} ELSE g_io
    /\ UNCHANGED <<g_open, g_bad, g_pending, g_last, g_tok>>

----------------------------------------------------------------------------
(* One credentials() call, a line of a file at a time *)

\* no request is on record
NoHistory == [on |-> FALSE, last |-> NoOutcome, profile |-> << >>]

\* the record when a request starts or the profile is set: the outcome of the
\* request just finished, if there is one
Remember ==
    IF g_prev.on /\ pc = "done"
    THEN [on |-> TRUE, last |-> outcome, profile |-> profile]
    ELSE g_prev

\* the locals of parse_internal
Locals(cp, ip, ck, cv) ==
    /\ current_profile' = cp
    /\ invalid_profile' = ip
    /\ current_key' = ck
    /\ current_value' = cv

\* a variant in which the profile a file ended in stays open for the next
StaleLocals == Locals(current_profile, invalid_profile, None, None)

\* the locals of parse_internal as it declares them
FreshLocals == Locals(None, TRUE, None, None)

\* a variant that sets the flag on a malformed header and leaves the profile
declare_profile_flag_only(result, cp, ip) ==
    IF result.ok
    THEN [current_profile |-> Some(result.name), invalid_profile |-> FALSE]
    ELSE [current_profile |-> cp, invalid_profile |-> TRUE]

\* a variant that leaves the profile open on a malformed header
declare_profile_keeping(result, cp, ip) ==
    IF result.ok
    THEN [current_profile |-> Some(result.name), invalid_profile |-> FALSE]
    ELSE [current_profile |-> cp, invalid_profile |-> ip]

\* the match on the extracted profile in parse_internal: the current profile
\* and the invalid-profile flag after a header line
declare_profile(result, cp, ip) ==
    IF result.ok
    THEN [current_profile |-> Some(result.name), invalid_profile |-> FALSE]
    ELSE [current_profile |-> None, invalid_profile |-> TRUE]

\* a variant that joins the lines of a value with a space
continue_value_spaced(cv, continuation) ==
    IF IsSome(cv) THEN Some(Unwrap(cv) \o <<" ">> \o continuation) ELSE cv

\* the continuation branch of parse_internal: current_value after it
continue_value(cv, continuation) ==
    IF IsSome(cv) THEN Some(Unwrap(cv) \o continuation) ELSE cv

----------------------------------------------------------------------------
(* core/src/xmlerror.rs: XmlError, and the xml variables while unused *)

\* XmlError::default() (#[derive(Default)]): empty strings and no detail
XmlError(error_type, code, message, detail) ==
    [error_type |-> error_type, code |-> code, message |-> message, detail |-> detail]

XmlErrorDefault == XmlError("", "", "", None)

\* the xml variables in the specifications that call nothing of xmlutil
XmlUnused ==
    /\ events = << >>
    /\ xml_stack = << >>
    /\ x_pc = "idle"
    /\ x_op = "none"
    /\ x_arg = ""
    /\ x_ret = None
    /\ x_at = << >>
    /\ deep = 0
    /\ obj = XmlErrorDefault
    /\ g_delivered = << >>

Init ==
    /\ line = << >>
    /\ chunks = 0
    /\ applied = FALSE
    /\ r_comment = FALSE
    /\ r_cred = None
    /\ r_conf = None
    /\ r_prop = None
    /\ r_cont = None
    /\ r_kind = NoKind
    /\ profile = DEFAULT
    /\ pc = "idle"
    /\ file = "credentials"
    /\ no = 0
    /\ profiles = EmptyMap
    /\ current_profile = None
    /\ invalid_profile = TRUE
    /\ current_key = None
    /\ current_value = None
    /\ cred_result = "none"
    /\ config_result = "none"
    /\ outcome = NoOutcome
    /\ GhostInit
    /\ g_prev = NoHistory
    /\ polled = None
    /\ e_creds = "none"
    /\ e_config = "none"
    /\ env = PlainEnv
    /\ provider = None
    /\ XmlUnused

\* ProfileProvider::set_profile, between two calls
set_profile(n) ==
    /\ pc \in {"idle", "done"}
    /\ profile' = n
    /\ pc' = "idle"
    /\ outcome' = NoOutcome
    /\ cred_result' = "none"
    /\ config_result' = "none"
    /\ FreshFileGhosts
    /\ FreshCallGhosts
    /\ g_prev' = Remember
    /\ polled' = None
    /\ e_creds' = "none"
    /\ e_config' = "none"
    /\ UNCHANGED <<file, no, profiles, current_profile, invalid_profile,
                   current_key, current_value, lineVars, envVars, xmlVars>>

\* ProfileProvider::credentials is called: parse_config_files makes a new
\* Config and turns to the credentials file
credentials ==
    /\ pc \in {"idle", "done"}
    /\ pc' = "open"
    /\ file' = "credentials"
    /\ no' = 0
    /\ profiles' = EmptyMap
    /\ cred_result' = "none"
    /\ config_result' = "none"
    /\ outcome' = NoOutcome
    /\ FreshLocals
    /\ FreshFileGhosts
    /\ FreshCallGhosts
    /\ g_prev' = Remember
    /\ polled' = None
    /\ e_creds' = "none"
    /\ e_config' = "none"
    /\ UNCHANGED <<profile, lineVars, envVars, xmlVars>>

\* parse_internal returns res for the file it read: parse_config_files
\* keeps the result and turns to the config file, or to the match
Return(res) ==
    /\ no' = 0
    /\ FreshLocals
    /\ LET e == IF res = "ok" THEN "none"
                 ELSE IF pc = "open" THEN "open failed" ELSE "read failed"
       IN  IF file = "credentials"
           THEN /\ cred_result' = res
                /\ e_creds' = e
                /\ file' = "config"
                /\ pc' = "open"
                /\ UNCHANGED <<config_result, e_config>>
           ELSE /\ config_result' = res
                /\ e_config' = e
                /\ pc' = "resolve"
                /\ UNCHANGED <<cred_result, e_creds, file>>

\* File::open succeeds
open_ok ==
    /\ pc = "open"
    /\ pc' = "lines"
    /\ FreshFileGhosts
    /\ UNCHANGED <<profile, file, no, profiles, current_profile, invalid_profile,
                   current_key, current_value, cred_result, config_result, e_creds, e_config,
                   outcome, lineVars, envVars, xmlVars, polled, g_prev, callGhosts>>

\* File::open fails: parse_internal returns the error
open_fails ==
    /\ pc = "open"
    /\ Return("err")
    /\ g_flush' = "none"
    /\ g_open' = None
    /\ g_bad' = "none"
    /\ g_pending' = None
    /\ g_last' = "none"
    /\ g_sec' = EmptyMap
    /\ g_clean' = FALSE
    /\ IF file = "credentials"
       THEN g_cred' = profiles /\ g_wf' = EmptyMap
       ELSE UNCHANGED <<g_cred, g_wf>>
    /\ g_io' = g_io \cup {file}
    /\ UNCHANGED <<profile, profiles, outcome, lineVars, envVars, xmlVars, polled, g_prev, g_tok>>

\* reading the next line fails (line?): parse_internal returns the error
\* without the final flush
read_fails ==
    /\ pc = "lines"
    /\ Return("err")
    /\ g_flush' = "none"
    /\ GhostReturn("err", profiles)
    /\ UNCHANGED <<profile, profiles, outcome, lineVars, envVars, xmlVars, polled, g_prev>>

\* what the loop of parse_internal computes from the text of a line, for
\* each file and line
Scan ==
    [f \in {"credentials", "config"}, l \in Lines \cup RequestLines |->
        [comment |-> is_comment_or_empty(l.text),
         header |-> profile_extractor(f, l.text),
         continuation |-> extract_continuation(l.text),
         property |-> extract_property(l.text)]]

\* one iteration of the loop of parse_internal, on line l
read_line(l) ==
    /\ pc = "lines"
    /\ no < (IF file = "credentials" THEN MaxLines ELSE MaxConfigLines)
    /\ no' = no + 1
    /\ LET header == Scan[file, l].header
           continuation == Scan[file, l].continuation
           property == Scan[file, l].property
           branch == classify(Scan[file, l].comment, header, invalid_profile,
                              continuation, property)
       IN  IF branch = "header"
           THEN /\ profiles' = add_property_if_any(profiles, current_profile,
                                                   current_key, current_value)
                /\ g_flush' = Flushed(profiles, current_profile,
                                      current_key, current_value)
                /\ LET now == declare_profile(Unwrap(header), current_profile,
                                              invalid_profile)
                   IN  Locals(now.current_profile, now.invalid_profile, None, None)
           ELSE IF branch = "continuation"
           THEN /\ current_value' = continue_value(current_value, Unwrap(continuation))
                /\ UNCHANGED <<profiles, current_profile, invalid_profile, current_key>>
                /\ g_flush' = "none"
           ELSE IF branch = "property"
           THEN /\ profiles' = add_property_if_any(profiles, current_profile,
                                                   current_key, current_value)
                /\ g_flush' = Flushed(profiles, current_profile,
                                      current_key, current_value)
                /\ Locals(current_profile, invalid_profile,
                          Some(Unwrap(property).key), Some(Unwrap(property).value))
           ELSE \* a comment or blank line; a line while no valid profile is
                \* open; a line that is none of the above
                /\ UNCHANGED <<profiles, current_profile, invalid_profile,
                               current_key, current_value>>
                /\ g_flush' = "none"
    /\ GhostRead(l)
    /\ UNCHANGED <<profile, pc, file, cred_result, config_result, e_creds, e_config, outcome,
                   lineVars, envVars, xmlVars, polled, g_prev, g_cred, g_wf, g_io>>

\* a variant that reports a file ending outside a valid section as an error
end_of_file_strict ==
    /\ pc = "lines"
    /\ profiles' = add_property_if_any(profiles, current_profile,
                                       current_key, current_value)
    /\ g_flush' = Flushed(profiles, current_profile, current_key, current_value)
    /\ Return(IF invalid_profile THEN "err" ELSE "ok")
    /\ GhostReturn("ok", profiles')
    /\ UNCHANGED <<profile, outcome, lineVars, envVars, xmlVars, polled, g_prev>>

\* a variant that returns at the end of the file without the final flush
end_of_file_unflushed ==
    /\ pc = "lines"
    /\ g_flush' = "none"
    /\ Return("ok")
    /\ GhostReturn("ok", profiles)
    /\ UNCHANGED <<profile, profiles, outcome, lineVars, envVars, xmlVars, polled, g_prev>>

\* the file has no more lines: the final flush, and parse_internal returns Ok
end_of_file ==
    /\ pc = "lines"
    /\ profiles' = add_property_if_any(profiles, current_profile,
                                       current_key, current_value)
    /\ g_flush' = Flushed(profiles, current_profile, current_key, current_value)
    /\ Return("ok")
    /\ GhostReturn("ok", profiles')
    /\ UNCHANGED <<profile, outcome, lineVars, envVars, xmlVars, polled, g_prev>>

\* a variant that hands out the credentials of the request before, if any
resolved_cached ==
    /\ pc = "resolve"
    /\ pc' = "done"
    /\ outcome' = IF g_prev.last.kind = "credentials" THEN g_prev.last
                  ELSE resolve(cred_result, e_creds, config_result, e_config,
                               profiles, profile)
    /\ profiles' = EmptyMap
    /\ FreshFileGhosts
    /\ UNCHANGED <<profile, file, no, current_profile, invalid_profile,
                   current_key, current_value, cred_result, config_result,
                   e_creds, e_config, lineVars, envVars, xmlVars, polled, g_prev,
                   callGhosts>>

\* both files were parsed: the result of credentials(); the Config is dropped
resolved ==
    /\ pc = "resolve"
    /\ pc' = "done"
    /\ outcome' = resolve(cred_result, e_creds, config_result, e_config,
                          profiles, profile)
    /\ profiles' = EmptyMap
    /\ FreshFileGhosts
    /\ UNCHANGED <<profile, file, no, current_profile, invalid_profile,
                   current_key, current_value, cred_result, config_result,
                   e_creds, e_config, lineVars, envVars, xmlVars, polled, g_prev,
                   callGhosts>>

\* a variant in which the first poll finds the future not ready
poll_not_ready ==
    /\ pc = "done"
    /\ polled = None
    /\ polled' = Some(NotReady)
    /\ UNCHANGED <<profile, pc, file, no, profiles, current_profile, invalid_profile,
                   current_key, current_value, cred_result, config_result,
                   e_creds, e_config, outcome,
                   lineVars, ghostVars, envVars, xmlVars>>

\* ProfileProviderFuture::poll, the first poll of the returned future:
\* FutureResult hands out the result it was made of
poll ==
    /\ pc = "done"
    /\ polled = None
    /\ polled' = Some(outcome)
    /\ UNCHANGED <<profile, pc, file, no, profiles, current_profile, invalid_profile,
                   current_key, current_value, cred_result, config_result,
                   e_creds, e_config, outcome,
                   lineVars, ghostVars, envVars, xmlVars>>

Next ==
    \/ \E n \in ProfileNames : set_profile(n)
    \/ credentials
    \/ open_ok
    \/ open_fails
    \/ read_fails
    \/ \E l \in Lines : read_line(l)
    \/ end_of_file
    \/ resolved
    \/ poll

Spec == Init /\ [][Next]_vars

----------------------------------------------------------------------------
(* RequestsSpec: requests one after the other on one provider, the files   *)
(* made of RequestLines, with the outcome of the request before on record  *)

RequestsInit ==
    /\ line = << >>
    /\ chunks = 0
    /\ applied = FALSE
    /\ r_comment = FALSE
    /\ r_cred = None
    /\ r_conf = None
    /\ r_prop = None
    /\ r_cont = None
    /\ r_kind = NoKind
    /\ profile = DEFAULT
    /\ pc = "idle"
    /\ file = "credentials"
    /\ no = 0
    /\ profiles = EmptyMap
    /\ current_profile = None
    /\ invalid_profile = TRUE
    /\ current_key = None
    /\ current_value = None
    /\ cred_result = "none"
    /\ config_result = "none"
    /\ outcome = NoOutcome
    /\ GhostInit
    /\ g_prev = [on |-> TRUE, last |-> NoOutcome, profile |-> << >>]
    /\ polled = None
    /\ e_creds = "none"
    /\ e_config = "none"
    /\ env = PlainEnv
    /\ provider = None
    /\ XmlUnused

RequestsNext ==
    \/ \E n \in ProfileNames : set_profile(n)
    \/ credentials
    \/ open_ok
    \/ open_fails
    \/ read_fails
    \/ \E l \in RequestLines : read_line(l)
    \/ end_of_file
    \/ resolved
    \/ poll

RequestsSpec == RequestsInit /\ [][RequestsNext]_vars

----------------------------------------------------------------------------
(* LineSpec: every line built from at most MaxChunks pieces on one of the  *)
(* Openings, with the classifier and the grammars applied to it            *)

MaxChunks == 4

Chunks == { <<"[">>, <<"]">>, <<" ">>, <<"\t">>, <<"#">>, <<";">>, <<"=">>,
            <<"a">>, <<"!">>, PROFILE, DEFAULT }

Openings == { << >>, <<"[", " ">>, <<"[", " ">> \o PROFILE, <<"a", "=", "a">> }

LineInit ==
    /\ line \in Openings
    /\ chunks = 0
    /\ applied = FALSE
    /\ r_comment = FALSE
    /\ r_cred = None
    /\ r_conf = None
    /\ r_prop = None
    /\ r_cont = None
    /\ r_kind = NoKind
    /\ profile = DEFAULT
    /\ pc = "idle"
    /\ file = "credentials"
    /\ no = 0
    /\ profiles = EmptyMap
    /\ current_profile = None
    /\ invalid_profile = TRUE
    /\ current_key = None
    /\ current_value = None
    /\ cred_result = "none"
    /\ config_result = "none"
    /\ outcome = NoOutcome
    /\ GhostInit
    /\ g_prev = NoHistory
    /\ polled = None
    /\ e_creds = "none"
    /\ e_config = "none"
    /\ env = PlainEnv
    /\ provider = None
    /\ XmlUnused

\* the next piece of the line under construction
AppendChunk(c) ==
    /\ ~ applied
    /\ chunks < MaxChunks
    /\ line' = line \o c
    /\ chunks' = chunks + 1
    /\ UNCHANGED <<applied, r_comment, r_cred, r_conf, r_prop, r_cont, r_kind>>
    /\ UNCHANGED <<callVars, ghostVars, envVars, xmlVars>>

\* the line is complete: apply the functions to it
Apply ==
    /\ ~ applied
    /\ applied' = TRUE
    /\ r_comment' = is_comment_or_empty(line)
    /\ r_cred' = extract_profile(line)
    /\ r_conf' = extract_profile_with_profile_prefix(line)
    /\ r_prop' = extract_property(line)
    /\ r_cont' = extract_continuation(line)
    /\ r_kind' = [f \in {"credentials", "config"}, inv \in BOOLEAN |->
                     classify(is_comment_or_empty(line), profile_extractor(f, line), inv,
                              extract_continuation(line), extract_property(line))]
    /\ UNCHANGED <<line, chunks>>
    /\ UNCHANGED <<callVars, ghostVars, envVars, xmlVars>>

LineNext ==
    \/ \E c \in Chunks : AppendChunk(c)
    \/ Apply

LineSpec == LineInit /\ [][LineNext]_vars

----------------------------------------------------------------------------
(* NewSpec: ProfileProvider::new called in each of the environments Envs   *)

NewInit ==
    /\ env \in Envs
    /\ provider = None
    /\ XmlUnused
    /\ line = << >>
    /\ chunks = 0
    /\ applied = FALSE
    /\ r_comment = FALSE
    /\ r_cred = None
    /\ r_conf = None
    /\ r_prop = None
    /\ r_cont = None
    /\ r_kind = NoKind
    /\ profile = DEFAULT
    /\ pc = "idle"
    /\ file = "credentials"
    /\ no = 0
    /\ profiles = EmptyMap
    /\ current_profile = None
    /\ invalid_profile = TRUE
    /\ current_key = None
    /\ current_value = None
    /\ cred_result = "none"
    /\ config_result = "none"
    /\ outcome = NoOutcome
    /\ GhostInit
    /\ g_prev = NoHistory
    /\ polled = None
    /\ e_creds = "none"
    /\ e_config = "none"

\* ProfileProvider::new is called
construct ==
    /\ provider = None
    /\ provider' = Some(new(env))
    /\ UNCHANGED <<env, lineVars, callVars, ghostVars, xmlVars>>

NewNext == construct

NewSpec == NewInit /\ [][NewNext]_vars

----------------------------------------------------------------------------
(* Claims about the store and the file parser, checked under Spec *)

\* a step of the parse of a file
Parsing == pc \in {"open", "lines"}

\* every value the store holds is still there, unchanged, after the step
KeepsValues ==
    \A p \in DOMAIN profiles :
        /\ p \in DOMAIN profiles'
        /\ \A k \in DOMAIN profiles[p] :
              /\ k \in DOMAIN profiles'[p]
              /\ profiles'[p][k] = profiles[p][k]

\* what the credentials file put into the store is what the store holds
CredentialsFileFirst ==
    \A p \in DOMAIN g_cred :
        /\ p \in DOMAIN profiles
        /\ \A k \in DOMAIN g_cred[p] :
              /\ k \in DOMAIN profiles[p]
              /\ profiles[p][k] = g_cred[p][k]

\* C1: first value wins.  Once the store holds a value for a profile and a
\* key, no later line of the credentials file or of the config file changes
\* it; the values the credentials file stored are still the stored ones when
\* the config file was parsed, and the access key and secret key resolved are
\* the credentials file's when it defines them.
C1_FirstValueWins ==
    /\ [][Parsing => KeepsValues]_vars
    /\ [](pc = "resolve" => CredentialsFileFirst)
    /\ [](/\ pc = "done" /\ outcome.kind = "credentials"
          /\ contains_key(g_cred, profile)
          => /\ contains_key(g_cred[profile], AWS_ACCESS_KEY_ID)
                => outcome.access_key = g_cred[profile][AWS_ACCESS_KEY_ID]
             /\ contains_key(g_cred[profile], AWS_SECRET_ACCESS_KEY)
                => outcome.secret_key = g_cred[profile][AWS_SECRET_ACCESS_KEY])

\* C1 witness: the config file ended on a pair for profile p and the access
\* key whose value differs from A1, the value the credentials file stored,
\* and the store still holds A1
C1_Witness ==
    /\ pc = "resolve"
    /\ g_flush = "shadowed"
    /\ g_cred = (P :> (AWS_ACCESS_KEY_ID :> A1))
    /\ profiles = g_cred

\* C2: when the credentials file is well-formed (one or more sections, each a
\* valid header declaring a profile of its own, an access key line and a
\* secret key line, and nothing else but blank and comment lines), the call
\* for a profile the file declares returns credentials, with exactly the
\* access key and secret key written in that profile's section, and with no
\* session token when no line of either file defines one.
C2_WellFormedFileResolves ==
    (pc = "done" /\ contains_key(g_wf, profile)) =>
        /\ outcome.kind = "credentials"
        /\ outcome.access_key = g_wf[profile].ak
        /\ outcome.secret_key = g_wf[profile].sk
        /\ (~ g_tok => outcome.token = None)

\* C2 witness: a well-formed credentials file with two profiles that differ in
\* their access key, no token line, and the credentials of profile p returned
C2_Witness ==
    /\ pc = "done"
    /\ DOMAIN g_wf = {P, DEFAULT}
    /\ g_wf[P].ak # g_wf[DEFAULT].ak
    /\ profile = P
    /\ ~ g_tok
    /\ outcome = AwsCredentials(g_wf[P].ak, g_wf[P].sk, None)

\* the step is in a malformed section: the last header candidate of the file
\* was malformed
InMalformed == g_bad \in {"bad", "ignoring"}

\* the step reads a line of kind k
Reads(k) == pc = "lines" /\ no' = no + 1 /\ g_last' = k

\* the step reads a line that is not a header
ReadsNoHeader == \E k \in {"blank", "comment", "kv", "cont", "junk"} : Reads(k)

\* the step changes the store for no profile but n
OnlyProfile(n) ==
    /\ DOMAIN profiles' \subseteq DOMAIN profiles \cup {n}
    /\ \A p \in DOMAIN profiles \ {n} : p \in DOMAIN profiles' /\ profiles'[p] = profiles[p]

\* C3: invalid header recovery.  After a malformed section header no line up
\* to the next valid header changes the store (the end of the file does not
\* either), so nothing is added to the profile that was open before; a valid
\* header opens its profile again, and every change of the store is to the
\* profile the last valid header declared.
C3_InvalidHeaderRecovery ==
    [][Parsing =>
        /\ (ReadsNoHeader /\ InMalformed) => profiles' = profiles
        /\ (pc = "lines" /\ pc' # "lines" /\ InMalformed) => profiles' = profiles
        /\ (Reads("header") /\ IsSome(g_open'))
              => current_profile' = g_open' /\ ~ invalid_profile'
        /\ profiles' # profiles => IsSome(g_open) /\ OnlyProfile(Unwrap(g_open))
      ]_vars

\* C3 witness: a pair of profile p was stored, then lines of a malformed
\* section were read, then a valid header, and at the end of the file the pair
\* that follows it was stored under the profile it opens
C3_Witness ==
    /\ pc = "open"
    /\ file = "config"
    /\ g_bad = "recovered"
    /\ g_flush = "inserted"
    /\ g_open = Some(DEFAULT)
    /\ DOMAIN profiles = {P, DEFAULT}
    /\ DOMAIN profiles[P] = {AWS_ACCESS_KEY_ID}

\* C4: malformed content is never fatal.  The parse of a file ends with an
\* error only if opening or reading the file failed, whatever its lines are.
C4_MalformedNeverFatal ==
    /\ cred_result = "err" => "credentials" \in g_io
    /\ config_result = "err" => "config" \in g_io

\* C4 witness: the credentials file held a malformed header and lines after
\* it, ended on an unrecognized line, and its parse returned Ok
C4_Witness ==
    /\ pc = "open"
    /\ file = "config"
    /\ cred_result = "ok"
    /\ g_bad = "ignoring"
    /\ g_last = "junk"

\* the store holds for each profile whose section has the shape exactly the
\* two pairs of that section
SectionAlone ==
    \A n \in DOMAIN g_sec :
        g_sec[n].status = "full" =>
            /\ contains_key(profiles, n)
            /\ profiles[n] = (AWS_ACCESS_KEY_ID :> g_sec[n].ak
                              @@ AWS_SECRET_ACCESS_KEY :> g_sec[n].sk)

C6_ContinuationAccumulation ==
    /\ []((pc = "lines" /\ IsSome(g_pending)) =>
            /\ current_key = Some(Unwrap(g_pending).key)
            /\ current_value = Some(Unwrap(g_pending).val))
    /\ [][(Parsing /\ profiles' # profiles) =>
            /\ IsSome(g_open) /\ IsSome(g_pending)
            /\ contains_key(profiles', Unwrap(g_open))
            /\ contains_key(profiles'[Unwrap(g_open)], Unwrap(g_pending).key)
            /\ profiles'[Unwrap(g_open)][Unwrap(g_pending).key] = Unwrap(g_pending).val
         ]_vars

\* C6 witness: a value A1 continued by two lines was stored as A1xx
C6_Witness ==
    /\ contains_key(profiles, P)
    /\ contains_key(profiles[P], AWS_ACCESS_KEY_ID)
    /\ profiles[P][AWS_ACCESS_KEY_ID] = A1 \o X \o X

\* C7: ignored lines change nothing.  A comment or blank line leaves the store
\* and the parser state unchanged; an unrecognized line, a continuation line
\* with no pending value and any line but a header read while no valid
\* profile is open leave the store unchanged.
C7_IgnoredLines ==
    [][/\ (Reads("blank") \/ Reads("comment")) =>
              UNCHANGED <<profiles, current_profile, invalid_profile,
                          current_key, current_value>>
       /\ Reads("junk") => profiles' = profiles
       /\ (Reads("cont") /\ ~ IsSome(g_pending)) => profiles' = profiles
       /\ (ReadsNoHeader /\ ~ IsSome(g_open)) => profiles' = profiles
      ]_vars

\* C7 witness: a comment line was read while a pair was pending and the store
\* held a profile
C7_Witness ==
    /\ pc = "lines"
    /\ g_last = "comment"
    /\ IsSome(current_value)
    /\ profiles # EmptyMap

----------------------------------------------------------------------------
(* Claims on the line functions, under LineSpec *)

\* the line holds nothing but spaces and tabs
OnlyBlanks(l) == \A i \in 1..Len(l) : l[i] \in {" ", "\t"}

\* the first character of the line after its leading spaces and tabs is one
\* of the comment characters
FirstNonBlankIsComment(l) ==
    \E i \in 1..Len(l) : /\ l[i] \in {"#", ";"}
                         /\ OnlyBlanks(SubSeq(l, 1, i - 1))

\* C8 as stated: a line is comment/blank exactly when it is empty, holds only
\* spaces and tabs, or its first non-space character is '#' or ';'
C8_AsStated ==
    applied => (r_comment <=> (OnlyBlanks(line) \/ FirstNonBlankIsComment(line)))

\* C8: a line is classified as comment/blank exactly when it is empty, holds
\* only spaces and tabs, or its first character is '#' or ';'; a '#' or ';'
\* that follows leading spaces or tabs does not make the line a comment
C8_CommentOrEmpty ==
    applied => (r_comment <=> \/ line = << >>
                              \/ OnlyBlanks(line)
                              \/ line[1] \in {"#", ";"})

\* C8 witness: the line " #" was classified, and not as a comment
C8_Witness ==
    /\ applied
    /\ line = <<" ", "#">>
    /\ ~ r_comment
    /\ r_cont = Some(<<"#">>)

\* the header candidate with its inline comment cut and trimmed
HeaderCut(l) == trim(split_first(l, {"#", ";"}))

\* the cut text ends with the closing bracket
Closed(l) == Len(HeaderCut(l)) >= 2 /\ HeaderCut(l)[Len(HeaderCut(l))] = "]"

\* the trimmed text between the brackets
InnerText(l) == trim(SubSeq(HeaderCut(l), 2, Len(HeaderCut(l)) - 1))

\* the names that can be read off a text: its suffixes
Suffixes(t) == { SubSeq(t, i, Len(t)) : i \in 1..(Len(t) + 1) }

\* the names the config-file grammar gives line l
ConfigNames(l) ==
    { n \in Suffixes(InnerText(l)) \cup {DEFAULT} :
        /\ Closed(l)
        /\ \/ InnerText(l) = DEFAULT /\ n = DEFAULT
           \/ /\ \E sep \in {" ", "\t"} : InnerText(l) = PROFILE \o <<sep>> \o n
              /\ IS_VALID_IDENTIFIER(n) }

\* the names the credentials-file grammar gives line l
CredentialsNames(l) ==
    { n \in {InnerText(l)} : Closed(l) /\ IS_VALID_IDENTIFIER(n) }

\* C9: config-file section grammar.  For a line starting with '[', with
\* everything from the first '#' or ';' cut and the rest trimmed, a name is
\* extracted exactly when the text ends with ']' and the trimmed inner text is
\* 'default' (the name is 'default') or 'profile', one space or tab, and a
\* remainder of identifier characters (the name is the remainder); every
\* other line starting with '[' is reported as a malformed header.
C9_ConfigGrammar ==
    (applied /\ starts_with(line, <<"[">>)) =>
        /\ IsSome(r_conf)
        /\ Unwrap(r_conf).ok <=> ConfigNames(line) # {}
        /\ Unwrap(r_conf).ok => Unwrap(r_conf).name \in ConfigNames(line)
        /\ ~ Unwrap(r_conf).ok => r_conf = Some(Err)

\* C9 witness: "[ profile\ta ]" gave the name a
C9_Witness ==
    /\ applied
    /\ line = <<"[", " ">> \o PROFILE \o <<"\t", "a", " ", "]">>
    /\ r_conf = Some(Ok(<<"a">>))

\* C10: credentials-file section grammar.  For a line starting with '[', with
\* everything from the first '#' or ';' cut and the rest trimmed, a name is
\* extracted exactly when the text ends with ']' and the trimmed text between
\* the brackets is made of identifier characters (the name is that text);
\* every other line starting with '[' is reported as a malformed header, and
\* a 'profile ' prefix is never stripped.
C10_CredentialsGrammar ==
    (applied /\ starts_with(line, <<"[">>)) =>
        /\ IsSome(r_cred)
        /\ Unwrap(r_cred).ok <=> CredentialsNames(line) # {}
        /\ Unwrap(r_cred).ok => Unwrap(r_cred).name = InnerText(line)
        /\ ~ Unwrap(r_cred).ok => r_cred = Some(Err)

\* C10 witness: "[ profile a]" is a malformed header in the credentials file
\* and declares profile a in the config file
C10_Witness ==
    /\ applied
    /\ line = <<"[", " ">> \o PROFILE \o <<" ", "a", "]">>
    /\ r_cred = Some(Err)
    /\ r_conf = Some(Ok(<<"a">>))

----------------------------------------------------------------------------
(* Claims about the outcome of a request, checked under Spec *)

\* the step is the end of a request whose files did not both fail
Resolves == pc = "resolve" /\ pc' = "done" /\ g_io # {"credentials", "config"}

\* the properties of the requested profile hold key k
HasKey(k) == contains_key(profiles[profile], k)

\* the kinds of outcome of a found profile
ExtractionKinds ==
    {"credentials", "missing secret key", "missing access key",
     "missing access and secret key"}

\* C11: missing-key outcomes.  On the properties of a found profile, both
\* keys present gives credentials, the access key alone the missing secret
\* key error, the secret key alone the missing access key error, neither the
\* missing access and secret key error; each error carries the requested
\* profile name (the four outcomes are distinct values).
C11_MissingKeyOutcomes ==
    [][(Resolves /\ contains_key(profiles, profile)) =>
        /\ (HasKey(AWS_ACCESS_KEY_ID) /\ HasKey(AWS_SECRET_ACCESS_KEY))
              => outcome'.kind = "credentials"
        /\ (HasKey(AWS_ACCESS_KEY_ID) /\ ~ HasKey(AWS_SECRET_ACCESS_KEY))
              => outcome' = Error("missing secret key", profile)
        /\ (~ HasKey(AWS_ACCESS_KEY_ID) /\ HasKey(AWS_SECRET_ACCESS_KEY))
              => outcome' = Error("missing access key", profile)
        /\ (~ HasKey(AWS_ACCESS_KEY_ID) /\ ~ HasKey(AWS_SECRET_ACCESS_KEY))
              => outcome' = Error("missing access and secret key", profile)
      ]_vars

\* C11 witness: profile p was found with its secret key alone
C11_Witness ==
    /\ pc = "done"
    /\ profile = P
    /\ g_cred = (P :> (AWS_SECRET_ACCESS_KEY :> S1))
    /\ outcome = Error("missing access key", P)

\* C12: profile not found.  When the files did not both fail and the
\* requested profile is not a key of the store, the request fails with the
\* profile-not-found error for that profile, whatever other profiles the
\* store holds.
C12_ProfileNotFound ==
    [][(Resolves /\ ~ contains_key(profiles, profile))
          => outcome' = Error("profile not found", profile)]_vars

\* C12 witness: profile p was requested, the credentials file held complete
\* credentials for the default profile alone
C12_Witness ==
    /\ pc = "done"
    /\ profile = P
    /\ DOMAIN g_wf = {DEFAULT}
    /\ DOMAIN g_cred = {DEFAULT}
    /\ config_result = "ok"
    /\ outcome = Error("profile not found", P)

\* what a failed open or read leaves as the error of the file
Failures == {"open failed", "read failed"}

C13_BothFailed ==
    /\ pc = "done"
    /\ outcome = NeitherRead(credentials_file_path, "read failed",
                             config_file_path, "open failed")

C13_CredentialsFailed ==
    /\ pc = "done"
    /\ g_io = {"credentials"}
    /\ profile = P
    /\ outcome = Error("missing secret key", P)

\* C14: a file whose open or read fails is treated as empty.  When one file
\* fails and the other parses, the failed file has put nothing in the store:
\* the store is empty after a failed credentials file, and a failed config
\* file leaves the store as the credentials file left it.
C14_FailedFileEmpty ==
    /\ (pc = "resolve" /\ g_io = {"credentials"}) => g_cred = EmptyMap
    /\ (pc = "resolve" /\ g_io = {"config"}) => profiles = g_cred

\* the kinds of outcome a request ends with
TerminalKinds ==
    ExtractionKinds \cup {"profile not found", "neither file could be read"}

\* C16: one terminal outcome per request.  A request has no outcome until
\* its last step and then exactly one, which stays; the outcome is either
\* credentials carrying the access key and the secret key of the profile, or
\* one error carrying no key; the first poll of the returned future gives
\* that outcome and never not-ready.
C16_OneTerminalOutcome ==
    /\ [](/\ pc = "done" <=> outcome # NoOutcome
          /\ pc = "done" => outcome.kind \in TerminalKinds
          /\ outcome.kind # "credentials" =>
                /\ outcome.access_key = << >>
                /\ outcome.secret_key = << >>
                /\ outcome.token = None
          /\ IsSome(polled) => pc = "done" /\ polled = Some(outcome))
    /\ [][/\ outcome' # outcome =>
                \/ outcome = NoOutcome /\ pc = "resolve" /\ pc' = "done"
                \/ outcome' = NoOutcome /\ pc = "done" /\ pc' # "done"
          /\ (pc = "resolve" /\ outcome'.kind = "credentials") =>
                /\ contains_key(profiles, profile)
                /\ HasKey(AWS_ACCESS_KEY_ID)
                /\ HasKey(AWS_SECRET_ACCESS_KEY)
                /\ outcome'.access_key = profiles[profile][AWS_ACCESS_KEY_ID]
                /\ outcome'.secret_key = profiles[profile][AWS_SECRET_ACCESS_KEY]
         ]_vars

\* C16 witness: the future of a request that ended with an error was polled
C16_Witness ==
    /\ pc = "done"
    /\ outcome = Error("missing secret key", P)
    /\ polled = Some(outcome)

\* C18: session token source.  The token of returned credentials is the value
\* of the profile's aws_security_token property when it has one and absent
\* otherwise, and the secret key returned is the profile's
\* aws_secret_access_key property.
C18_SessionToken ==
    [][(Resolves /\ contains_key(profiles, profile)
                 /\ outcome'.kind = "credentials") =>
        /\ outcome'.token = IF HasKey(AWS_SECURITY_TOKEN)
                            THEN Some(profiles[profile][AWS_SECURITY_TOKEN])
                            ELSE None
        /\ outcome'.secret_key = profiles[profile][AWS_SECRET_ACCESS_KEY]
        /\ outcome'.token # Some(outcome'.secret_key)
      ]_vars

\* C18 witness: credentials with the token of the aws_security_token line
C18_Witness ==
    /\ pc = "done"
    /\ g_tok
    /\ outcome = AwsCredentials(A1, S1, Some(T1))

\* C18, the other case: credentials of a profile with no token property
C18_NoToken ==
    /\ pc = "done"
    /\ g_tok
    /\ outcome = AwsCredentials(A1, S1, None)

----------------------------------------------------------------------------
(* Claims about sequences of requests, checked under RequestsSpec *)

\* C15: returned credentials have a non-empty access key and a non-empty
\* secret key, whatever the files hold.
C15_NonEmptyKeys ==
    (pc = "done" /\ outcome.kind = "credentials") =>
        /\ outcome.access_key # << >>
        /\ outcome.secret_key # << >>

\* the step starts a request
Starts == pc \in {"idle", "done"} /\ pc' = "open"

\* C17: no caching across requests.  Whatever the requests before were and
\* gave, a request starts with a new empty store and no result, and its
\* outcome is that of the files as they are read in this request: a
\* well-formed credentials file gives the credentials written in it for the
\* requested profile, and two files that fail give the error.
C17_NoCaching ==
    /\ [][Starts =>
            /\ profiles' = EmptyMap
            /\ cred_result' = "none" /\ config_result' = "none"
            /\ outcome' = NoOutcome /\ polled' = None
            /\ current_profile' = None /\ invalid_profile'
            /\ current_key' = None /\ current_value' = None
         ]_vars
    /\ [](pc = "done" =>
            /\ contains_key(g_wf, profile)
                  => outcome = AwsCredentials(g_wf[profile].ak, g_wf[profile].sk, None)
            /\ g_io = {"credentials", "config"}
                  => outcome.kind = "neither file could be read")

\* C17 witness: a request for profile p gave the access key A1, and the next
\* request for p, the file rewritten, gives A2
C17_Witness ==
    /\ pc = "done"
    /\ profile = P
    /\ g_prev.profile = P
    /\ g_prev.last = AwsCredentials(A1, S1, None)
    /\ outcome = AwsCredentials(A2, S1, None)

----------------------------------------------------------------------------
(* Claims about ProfileProvider::new, checked under NewSpec *)

\* the variable is set and not empty
Given(v) == IsSome(v) /\ Unwrap(v) # << >>

\* <home>/.aws/<name>
UnderHome(name) == Unwrap(env.home) \o <<"/", ".aws", "/", name>>

\* C19: defaults at construction.  new() fails, with the home directory
\* error, exactly when one of the two paths has to be defaulted and there is
\* no home directory.  Otherwise the profile is AWS_PROFILE when that is set
\* and not empty and 'default' if not, and each path is the value of its own
\* variable when that is set and not empty and <home>/.aws/credentials resp.
\* <home>/.aws/config if not.
C19_Defaults ==
    IsSome(provider) =>
        LET made == Unwrap(provider)
            defaulted == \/ ~ Given(env.AWS_SHARED_CREDENTIALS_FILE)
                         \/ ~ Given(env.AWS_SHARED_CONFIG_FILE)
        IN  /\ ~ made.ok <=> (defaulted /\ env.home = None)
            /\ ~ made.ok =>
                  made.error = "The environment variable HOME must be set."
            /\ made.ok =>
                  /\ made.profile = IF Given(env.AWS_PROFILE)
                                    THEN Unwrap(env.AWS_PROFILE) ELSE DEFAULT
                  /\ made.credentials_file_path =
                        Some(IF Given(env.AWS_SHARED_CREDENTIALS_FILE)
                             THEN Unwrap(env.AWS_SHARED_CREDENTIALS_FILE)
                             ELSE UnderHome("credentials"))
                  /\ made.config_file_path =
                        Some(IF Given(env.AWS_SHARED_CONFIG_FILE)
                             THEN Unwrap(env.AWS_SHARED_CONFIG_FILE)
                             ELSE UnderHome("config"))

\* C19 witness: AWS_PROFILE is empty, the credentials path is given and the
\* config path is not
C19_Witness ==
    /\ env.AWS_PROFILE = Some(<< >>)
    /\ env.AWS_SHARED_CREDENTIALS_FILE = Some(CredentialsEnvPath)
    /\ env.AWS_SHARED_CONFIG_FILE = Some(<< >>)
    /\ provider = Some([ok |-> TRUE,
                        config_file_path |-> Some(<<"/", "h", "/", ".aws", "/", "config">>),
                        credentials_file_path |-> Some(CredentialsEnvPath),
                        profile |-> DEFAULT,
                        error |-> ""])

\* C19, the other cases: both paths given and no home directory; a path to
\* default and no home directory
C19_NoHomeNeeded ==
    /\ env.home = None
    /\ IsSome(provider)
    /\ Unwrap(provider).ok
    /\ Unwrap(provider).profile = BAR

C19_HomeMissing ==
    /\ env.home = None
    /\ Given(env.AWS_SHARED_CREDENTIALS_FILE)
    /\ IsSome(provider)
    /\ ~ Unwrap(provider).ok

----------------------------------------------------------------------------
(* Claims about the values of key-value lines, checked under LineSpec *)

\* the text after the first '=' of the line
AfterEquals(l) ==
    LET eq == {i \in 1..Len(l) : l[i] = "="}
    IN  SubSeq(l, (CHOOSE i \in eq : \A j \in eq : i <= j) + 1, Len(l))

\* where in the text a space or tab is immediately followed by '#' or ';'
CommentStarts(v) ==
    {i \in 1..(Len(v) - 1) : v[i] \in {" ", "\t"} /\ v[i + 1] \in {"#", ";"}}

\* the text cut at the earliest such place
CutAtComment(v) ==
    IF CommentStarts(v) = {} THEN v
    ELSE SubSeq(v, 1, (CHOOSE i \in CommentStarts(v) :
                          \A j \in CommentStarts(v) : i <= j) - 1)

\* C20: inline comment stripping in values.  The value of a key-value line
\* is the text after the first '=', cut at the earliest space or tab that is
\* immediately followed by '#' or ';', then trimmed; a '#' or ';' that
\* directly follows another character stays part of the value.
C20_InlineComments ==
    (applied /\ IsSome(r_prop)) =>
        /\ \E i \in 1..Len(line) : line[i] = "="
        /\ Unwrap(r_prop).value = trim(CutAtComment(AfterEquals(line)))

\* C20 witness: "a=a#a ;" has the value "a#a"
C20_Witness ==
    /\ applied
    /\ line = <<"a", "=", "a", "#", "a", " ", ";">>
    /\ r_prop = Some([key |-> <<"a">>, value |-> <<"a", "#", "a">>])

\* C20, another case: the earliest of two comment starts cuts the value
C20_TwoComments ==
    /\ applied
    /\ line = <<"a", "=", "a", "\t", ";", " ", "#">>
    /\ r_prop = Some([key |-> <<"a">>, value |-> <<"a">>])

----------------------------------------------------------------------------
(* core/src/xmlutil.rs: the items of the xml reader and XmlResponse         *)
(*                                                                         *)
(* An item of the stack is a Result<XmlEvent, xml::reader::Error>; it is a *)
(* record whose kind is the variant of the event, or "Err" for an error of *)
(* the reader.  The names and the character data are strings.              *)

StartElement(name, attributes) ==
    [kind |-> "StartElement", name |-> name, attributes |-> attributes]
EndElement(name) == [kind |-> "EndElement", name |-> name, attributes |-> << >>]
Characters(data) == [kind |-> "Characters", name |-> data, attributes |-> << >>]
Whitespace == [kind |-> "Whitespace", name |-> " ", attributes |-> << >>]
ReaderError == [kind |-> "Err", name |-> "", attributes |-> << >>]

\* what a function leaves behind: the stack and what it returned
Returned(stack, ok, value, error) ==
    [stack |-> stack, ok |-> ok, value |-> value, error |-> error]
NoError == [msg |-> "", expected |-> "", got |-> None]

XmlParseError(msg, expected, got) == [msg |-> msg, expected |-> expected, got |-> got]

\* the loop of XmlResponse::peek: the stack without its leading whitespace
RECURSIVE skip_whitespace(_)
skip_whitespace(stack) ==
    IF stack # << >> /\ Head(stack).kind = "Whitespace"
    THEN skip_whitespace(Tail(stack))
    ELSE stack

\* a variant of peek that leaves the whitespace in place
peek_raw(stack) ==
    Returned(stack, TRUE, IF stack = << >> THEN None ELSE Some(Head(stack)), NoError)

\* impl Peek for XmlResponse
peek(stack) ==
    LET s == skip_whitespace(stack)
    IN  Returned(s, TRUE, IF s = << >> THEN None ELSE Some(Head(s)), NoError)

\* a variant of next that hands out every item
next_unfiltered(stack) ==
    IF stack = << >> THEN Returned(stack, TRUE, None, NoError)
    ELSE Returned(Tail(stack), TRUE, Some(Head(stack)), NoError)

\* impl Next for XmlResponse
RECURSIVE next(_)
next(stack) ==
    IF stack = << >> THEN Returned(stack, TRUE, None, NoError)
    ELSE IF Head(stack).kind = "Whitespace" THEN next(Tail(stack))
    ELSE Returned(Tail(stack), TRUE, Some(Head(stack)), NoError)

\* the attribute map start_element builds: a later attribute of a name
\* replaces an earlier one
RECURSIVE attr_map(_)
attr_map(attributes) ==
    IF attributes = << >> THEN EmptyMap
    ELSE LET n == Len(attributes)
         IN  insert(attr_map(SubSeq(attributes, 1, n - 1)),
                    attributes[n][1], attributes[n][2])

\* a variant of start_element that leaves an item it does not accept
start_element_peeking(element_name, stack) ==
    LET n == peek(stack)
    IN  IF IsSome(n.value) /\ Unwrap(n.value).kind = "StartElement"
           /\ Unwrap(n.value).name = element_name
        THEN Returned(next(stack).stack, TRUE, attr_map(Unwrap(n.value).attributes), NoError)
        ELSE Returned(n.stack, FALSE, EmptyMap,
                      XmlParseError("Expected StartElement", element_name, n.value))

\* start_element
start_element(element_name, stack) ==
    LET n == next(stack)
    IN  IF IsSome(n.value) /\ Unwrap(n.value).kind = "StartElement"
        THEN IF Unwrap(n.value).name = element_name
             THEN Returned(n.stack, TRUE, attr_map(Unwrap(n.value).attributes), NoError)
             ELSE Returned(n.stack, FALSE, EmptyMap,
                           XmlParseError("START Expected", element_name, n.value))
        ELSE Returned(n.stack, FALSE, EmptyMap,
                      XmlParseError("Expected StartElement", element_name, n.value))

\* end_element
end_element(element_name, stack) ==
    LET n == next(stack)
    IN  IF IsSome(n.value) /\ Unwrap(n.value).kind = "EndElement"
        THEN IF Unwrap(n.value).name = element_name
             THEN Returned(n.stack, TRUE, EmptyMap, NoError)
             ELSE Returned(n.stack, FALSE, EmptyMap,
                           XmlParseError("END Expected", element_name, n.value))
        ELSE Returned(n.stack, FALSE, EmptyMap,
                      XmlParseError("Expected EndElement", element_name, n.value))

\* a variant of the loop body of skip_tree that leaves at depth 0 only
skip_tree_step_shallow(stack, d) ==
    LET n == next(stack)
    IN  IF n.value = None THEN [stack |-> n.stack, deep |-> d, done |-> TRUE]
        ELSE IF Unwrap(n.value).kind = "StartElement"
        THEN [stack |-> n.stack, deep |-> d + 1, done |-> FALSE]
        ELSE IF Unwrap(n.value).kind = "EndElement"
        THEN IF d > 0
             THEN [stack |-> n.stack, deep |-> d - 1, done |-> FALSE]
             ELSE [stack |-> n.stack, deep |-> d, done |-> TRUE]
        ELSE [stack |-> n.stack, deep |-> d, done |-> FALSE]

\* one iteration of the loop of skip_tree: the stack and deep after it, and
\* whether the loop was left
skip_tree_step(stack, d) ==
    LET n == next(stack)
    IN  IF n.value = None THEN [stack |-> n.stack, deep |-> d, done |-> TRUE]
        ELSE IF Unwrap(n.value).kind = "StartElement"
        THEN [stack |-> n.stack, deep |-> d + 1, done |-> FALSE]
        ELSE IF Unwrap(n.value).kind = "EndElement"
        THEN IF d > 1
             THEN [stack |-> n.stack, deep |-> d - 1, done |-> FALSE]
             ELSE [stack |-> n.stack, deep |-> d, done |-> TRUE]
        ELSE [stack |-> n.stack, deep |-> d, done |-> FALSE]

\* a variant of the loop body of find_start_element that consumes the start
\* tag it finds
find_start_element_step_consuming(stack) ==
    LET p == peek(stack)
    IN  IF p.value = None THEN [stack |-> p.stack, done |-> TRUE]
        ELSE IF Unwrap(p.value).kind = "Err" THEN [stack |-> p.stack, done |-> TRUE]
        ELSE [stack |-> next(p.stack).stack,
              done |-> Unwrap(p.value).kind = "StartElement"]

\* a variant of the loop body of find_start_element that stops at a tag of
\* either kind
find_start_element_step_any_tag(stack) ==
    LET p == peek(stack)
    IN  IF p.value = None THEN [stack |-> p.stack, done |-> TRUE]
        ELSE IF Unwrap(p.value).kind \in {"StartElement", "EndElement"}
        THEN [stack |-> p.stack, done |-> TRUE]
        ELSE IF Unwrap(p.value).kind = "Err" THEN [stack |-> p.stack, done |-> TRUE]
        ELSE [stack |-> next(p.stack).stack, done |-> FALSE]

\* one iteration of the loop of find_start_element: the stack after it, and
\* whether the loop was left; the peek drops the whitespace before the item
\* it shows, and an item that is Ok and no start tag is taken by next
find_start_element_step(stack) ==
    LET p == peek(stack)
    IN  IF p.value = None THEN [stack |-> p.stack, done |-> TRUE]
        ELSE IF Unwrap(p.value).kind = "StartElement" THEN [stack |-> p.stack, done |-> TRUE]
        ELSE IF Unwrap(p.value).kind = "Err" THEN [stack |-> p.stack, done |-> TRUE]
        ELSE [stack |-> next(p.stack).stack, done |-> FALSE]

----------------------------------------------------------------------------
(* XmlSpec: the functions of xmlutil called one after the other on every   *)
(* stream of up to MaxEvents items, a reader error being the last item     *)

MaxEvents == 4

\* the names of the elements of the streams
TagNames == {"A", "B"}

Alphabet ==
    { StartElement("A", << >>), StartElement("B", << <<"k", "v">>, <<"k", "w">> >>),
      EndElement("A"), EndElement("B"), Characters("c"), Whitespace }

RECURSIVE SeqsUpTo(_, _)
SeqsUpTo(S, n) ==
    IF n = 0 THEN { << >> }
    ELSE LET shorter == SeqsUpTo(S, n - 1)
         IN  shorter \cup { Append(s, x) : s \in {t \in shorter : Len(t) = n - 1}, x \in S }

\* what the reader yields when the document of stream s is cut short: the
\* items before the cut, followed or not by a reader error
CutShort(s) ==
    UNION { { SubSeq(s, 1, n), Append(SubSeq(s, 1, n), ReaderError) } : n \in 0..(Len(s) - 1) }

\* an element nested d deep around character data
RECURSIVE Nested(_)
Nested(d) ==
    IF d = 0 THEN << Characters("c") >>
    ELSE << StartElement("A", << >>) >> \o Nested(d - 1) \o << EndElement("A") >>

MaxDepth == 3

\* elements of every depth up to MaxDepth with items after them, and what
\* the reader yields when such a document is cut short
DeepStreams ==
    LET whole == { Nested(d) \o << Whitespace, Characters("c") >> : d \in 1..MaxDepth }
    IN  whole \cup UNION { CutShort(s) : s \in whole }

Streams ==
    LET body == SeqsUpTo(Alphabet, MaxEvents)
    IN  body \cup { Append(s, ReaderError) : s \in body } \cup DeepStreams

\* the non-whitespace items of a stream, in order
RECURSIVE Significant(_)
Significant(stack) ==
    IF stack = << >> THEN << >>
    ELSE IF Head(stack).kind = "Whitespace" THEN Significant(Tail(stack))
    ELSE << Head(stack) >> \o Significant(Tail(stack))

\* the items a call of next hands out are recorded
Deliver(item) == IF IsSome(item) THEN Append(g_delivered, Unwrap(item)) ELSE g_delivered

\* the variables of the other specifications, unused here
OthersUnused ==
    /\ line = << >>
    /\ chunks = 0
    /\ applied = FALSE
    /\ r_comment = FALSE
    /\ r_cred = None
    /\ r_conf = None
    /\ r_prop = None
    /\ r_cont = None
    /\ r_kind = NoKind
    /\ profile = DEFAULT
    /\ pc = "idle"
    /\ file = "credentials"
    /\ no = 0
    /\ profiles = EmptyMap
    /\ current_profile = None
    /\ invalid_profile = TRUE
    /\ current_key = None
    /\ current_value = None
    /\ cred_result = "none"
    /\ config_result = "none"
    /\ outcome = NoOutcome
    /\ GhostInit
    /\ g_prev = NoHistory
    /\ polled = None
    /\ e_creds = "none"
    /\ e_config = "none"
    /\ env = PlainEnv
    /\ provider = None

otherVars == <<lineVars, callVars, ghostVars, envVars>>

XmlInit ==
    /\ events \in Streams
    /\ xml_stack = events
    /\ x_pc = "idle"
    /\ x_op = "none"
    /\ x_arg = ""
    /\ x_ret = None
    /\ x_at = << >>
    /\ deep = 0
    /\ obj = XmlErrorDefault
    /\ g_delivered = << >>
    /\ OthersUnused

\* a function of xmlutil that runs in one step is called and returns r
Called(op, arg, r) ==
    /\ x_pc = "idle"
    /\ x_op' = op
    /\ x_arg' = arg
    /\ x_at' = xml_stack
    /\ xml_stack' = r.stack
    /\ x_ret' = [ok |-> r.ok, value |-> r.value, error |-> r.error]
    /\ UNCHANGED <<events, x_pc, deep, obj, otherVars>>

\* reader.peek()
call_peek ==
    /\ Called("peek", "", peek(xml_stack))
    /\ UNCHANGED g_delivered

\* reader.next()
call_next ==
    /\ Called("next", "", next(xml_stack))
    /\ g_delivered' = Deliver(next(xml_stack).value)

\* start_element(name, &mut reader)
call_start_element(name) ==
    /\ Called("start_element", name, start_element(name, xml_stack))
    /\ g_delivered' = Deliver(next(xml_stack).value)

\* end_element(name, &mut reader)
call_end_element(name) ==
    /\ Called("end_element", name, end_element(name, xml_stack))
    /\ g_delivered' = Deliver(next(xml_stack).value)

\* skip_tree(&mut reader) is called: deep = 0
call_skip_tree ==
    /\ x_pc = "idle"
    /\ x_pc' = "skip_tree"
    /\ x_op' = "skip_tree"
    /\ x_arg' = ""
    /\ x_at' = xml_stack
    /\ x_ret' = None
    /\ deep' = 0
    /\ UNCHANGED <<events, xml_stack, obj, g_delivered, otherVars>>

\* one iteration of the loop of skip_tree; when the loop is left skip_tree
\* returns, to the loop of deserialize if that called it
skip_tree_loop ==
    /\ x_pc = "skip_tree"
    /\ LET r == skip_tree_step(xml_stack, deep)
       IN  /\ xml_stack' = r.stack
           /\ deep' = r.deep
           /\ x_pc' = IF ~ r.done THEN "skip_tree"
                      ELSE IF x_op = "deserialize" THEN "fields" ELSE "idle"
           /\ x_ret' = IF r.done /\ x_op = "skip_tree"
                       THEN [ok |-> TRUE, value |-> None, error |-> NoError] ELSE x_ret
    /\ g_delivered' = Deliver(next(xml_stack).value)
    /\ UNCHANGED <<events, x_op, x_arg, x_at, obj, otherVars>>

XmlNext ==
    \/ call_peek
    \/ call_next
    \/ \E name \in TagNames : call_start_element(name)
    \/ \E name \in TagNames : call_end_element(name)
    \/ call_skip_tree
    \/ skip_tree_loop

XmlSpec == XmlInit /\ [][XmlNext]_vars

\* SkipSpec: skip_tree called again and again on every stream; the running
\* loop takes its next iteration
SkipNext ==
    \/ call_skip_tree
    \/ skip_tree_loop

SkipSpec == XmlInit /\ [][SkipNext]_vars /\ WF_vars(skip_tree_loop)

----------------------------------------------------------------------------
(* FindSpec: find_start_element and next called one after the other on     *)
(* every stream of Streams                                                 *)

\* find_start_element(&mut reader) is called
call_find_start_element ==
    /\ x_pc = "idle"
    /\ x_pc' = "find_start_element"
    /\ x_op' = "find_start_element"
    /\ x_arg' = ""
    /\ x_at' = xml_stack
    /\ x_ret' = None
    /\ UNCHANGED <<events, xml_stack, deep, obj, g_delivered, otherVars>>

\* one iteration of the loop of find_start_element; when the loop is left
\* find_start_element returns
find_start_element_loop ==
    /\ x_pc = "find_start_element"
    /\ LET r == find_start_element_step(xml_stack)
       IN  /\ xml_stack' = r.stack
           /\ x_pc' = IF r.done THEN "idle" ELSE "find_start_element"
           /\ x_ret' = IF r.done THEN [ok |-> TRUE, value |-> None, error |-> NoError]
                       ELSE x_ret
           /\ g_delivered' = IF r.stack = peek(xml_stack).stack THEN g_delivered
                             ELSE Deliver(next(xml_stack).value)
    /\ UNCHANGED <<events, x_op, x_arg, x_at, deep, obj, otherVars>>

FindNext ==
    \/ call_find_start_element
    \/ find_start_element_loop
    \/ call_next

\* the running call takes its next step
FindSpec == XmlInit /\ [][FindNext]_vars /\ WF_vars(find_start_element_loop)

----------------------------------------------------------------------------
(* core/src/xmlutil.rs and core/src/xmlerror.rs: the functions             *)
(* XmlErrorDeserializer::deserialize calls, and its loop                   *)

\* characters
characters(stack) ==
    LET current == peek(stack)
    IN  IF IsSome(current.value) /\ Unwrap(current.value).kind = "EndElement"
        THEN Returned(current.stack, TRUE, "", NoError)
        ELSE LET n == next(stack)
             IN  IF IsSome(n.value) /\ Unwrap(n.value).kind = "Characters"
                 THEN Returned(n.stack, TRUE, Unwrap(n.value).name, NoError)
                 ELSE Returned(n.stack, FALSE, "",
                               XmlParseError("Expected characters", "", None))

\* try!(r) in a function returning a String returns the error of r
try(r) == Returned(r.stack, FALSE, "", r.error)

\* string_field: each call is evaluated once, and the code after a try! runs
\* on its Ok
string_field(name, stack) ==
    CHOOSE v \in {
        IF ~ s.ok THEN try(s)
        ELSE CHOOSE w \in {
            IF ~ c.ok THEN try(c)
            ELSE CHOOSE u \in {
                IF ~ e.ok THEN try(e)
                ELSE Returned(e.stack, TRUE, c.value, NoError)
                : e \in {end_element(name, c.stack)} } : TRUE
            : c \in {characters(s.stack)} } : TRUE
        : s \in {start_element(name, stack)} } : TRUE

\* PeekedName
PeekedStart(name) == [kind |-> "Start", name |-> name]
PeekedEnd(name) == [kind |-> "End", name |-> name]
PeekedNone == [kind |-> "None", name |-> ""]

\* peek_at_name
peek_at_name(stack) ==
    LET current == peek(stack)
    IN  IF current.value = None THEN Returned(current.stack, TRUE, PeekedNone, NoError)
        ELSE LET item == Unwrap(current.value)
             IN  IF item.kind = "StartElement"
                 THEN Returned(current.stack, TRUE, PeekedStart(item.name), NoError)
                 ELSE IF item.kind = "EndElement"
                 THEN Returned(current.stack, TRUE, PeekedEnd(item.name), NoError)
                 ELSE IF item.kind = "Err"
                 THEN Returned(current.stack, FALSE, PeekedNone,
                               XmlParseError("failed to peek element", "", current.value))
                 ELSE Returned(current.stack, FALSE, PeekedNone,
                               XmlParseError("is not a StartElement", "", current.value))

\* what an iteration of the loop of deserialize leaves: the stack, obj, where
\* the function goes on (the loop "fields", the call of skip_tree
\* "skip_tree", the code after the loop "end", or "return" with the error)
Iteration(stack, o, to, error) == [stack |-> stack, obj |-> o, to |-> to, error |-> error]

\* r? in deserialize returns the error of r
question_mark(r, o) == Iteration(r.stack, o, "return", r.error)

\* the arm of the loop for the Detail element: an error of characters is
\* passed over; each call is evaluated once
detail_field(stack, o) ==
    CHOOSE v \in {
        IF ~ s.ok THEN question_mark(s, o)
        ELSE CHOOSE w \in {
            IF ~ c.ok THEN Iteration(c.stack, o, "fields", NoError)
            ELSE CHOOSE u \in {
                IF ~ e.ok THEN question_mark(e, [o EXCEPT !.detail = Some(c.value)])
                ELSE Iteration(e.stack, [o EXCEPT !.detail = Some(c.value)],
                               "fields", NoError)
                : e \in {end_element("Detail", c.stack)} } : TRUE
            : c \in {characters(s.stack)} } : TRUE
        : s \in {start_element("Detail", stack)} } : TRUE

\* the arm of the loop for a string field: which names the field of obj
set_string_field(name, which, stack, o) ==
    CHOOSE v \in {
        IF ~ f.ok THEN question_mark(f, o)
        ELSE Iteration(f.stack, [o EXCEPT ![which] = f.value], "fields", NoError)
        : f \in {string_field(name, stack)} } : TRUE

\* a variant of the loop body that enters an element it does not know
\* instead of skipping it
deserialize_field_entering(stack, o) ==
    LET p == peek_at_name(stack)
    IN  IF ~ p.ok THEN Iteration(p.stack, o, "return", p.error)
        ELSE IF p.value = PeekedStart("Type")
        THEN set_string_field("Type", "error_type", stack, o)
        ELSE IF p.value = PeekedStart("Code")
        THEN set_string_field("Code", "code", stack, o)
        ELSE IF p.value = PeekedStart("Message")
        THEN set_string_field("Message", "message", stack, o)
        ELSE IF p.value = PeekedStart("Detail") THEN detail_field(stack, o)
        ELSE IF p.value.kind = "Start"
        THEN Iteration(next(stack).stack, o, "fields", NoError)
        ELSE IF p.value = PeekedEnd("Error") THEN Iteration(p.stack, o, "end", NoError)
        ELSE IF p.value.kind = "End"
        THEN Iteration(p.stack, o, "return", XmlParseError("unexpected end element", "", None))
        ELSE Iteration(p.stack, o, "return",
                       XmlParseError("unexpected end of XML input", "", None))

\* a variant of the loop body that leaves the loop at any end tag
deserialize_field_any_end(stack, o) ==
    LET p == peek_at_name(stack)
    IN  IF ~ p.ok THEN Iteration(p.stack, o, "return", p.error)
        ELSE IF p.value = PeekedStart("Type")
        THEN set_string_field("Type", "error_type", stack, o)
        ELSE IF p.value = PeekedStart("Code")
        THEN set_string_field("Code", "code", stack, o)
        ELSE IF p.value = PeekedStart("Message")
        THEN set_string_field("Message", "message", stack, o)
        ELSE IF p.value = PeekedStart("Detail") THEN detail_field(stack, o)
        ELSE IF p.value.kind = "Start"
        THEN Iteration(p.stack, o, "skip_tree", NoError)
        ELSE IF p.value.kind = "End" THEN Iteration(p.stack, o, "end", NoError)
        ELSE Iteration(p.stack, o, "return",
                       XmlParseError("unexpected end of XML input", "", None))

\* one iteration of the loop of XmlErrorDeserializer::deserialize
deserialize_field(stack, o) ==
    LET p == peek_at_name(stack)
    IN  IF ~ p.ok THEN Iteration(p.stack, o, "return", p.error)
        ELSE IF p.value = PeekedStart("Type")
        THEN set_string_field("Type", "error_type", stack, o)
        ELSE IF p.value = PeekedStart("Code")
        THEN set_string_field("Code", "code", stack, o)
        ELSE IF p.value = PeekedStart("Message")
        THEN set_string_field("Message", "message", stack, o)
        ELSE IF p.value = PeekedStart("Detail") THEN detail_field(stack, o)
        ELSE IF p.value.kind = "Start"
        THEN Iteration(p.stack, o, "skip_tree", NoError)
        ELSE IF p.value = PeekedEnd("Error") THEN Iteration(p.stack, o, "end", NoError)
        ELSE IF p.value.kind = "End"
        THEN Iteration(p.stack, o, "return", XmlParseError("unexpected end element", "", None))
        ELSE Iteration(p.stack, o, "return",
                       XmlParseError("unexpected end of XML input", "", None))

----------------------------------------------------------------------------
(* ErrorSpec: XmlErrorDeserializer::deserialize called once, with each tag *)
(* name of ErrorTags, on each of the streams ErrorStreams                  *)

MaxChildren == 2

\* the tag names deserialize is called with, and the elements are named
ErrorTags == {"Error", "Fault"}

Element(name, content) ==
    << StartElement(name, << >>) >> \o content \o << EndElement(name) >>

\* the children the loop reads without an error: the four fields, a field
\* without characters, elements it does not know (one holding a Code element
\* of its own), whitespace
CleanChildren ==
    { Element("Type", << Characters("t") >>),
      Element("Code", << Characters("c") >>),
      Element("Message", << Characters("m") >>),
      Element("Detail", << Characters("d") >>),
      Element("Code", << >>),
      Element("RequestId", << Whitespace >> \o Element("Code", << Characters("z") >>)),
      Element("Error", << >>),
      << Whitespace >> }

\* children the loop stops at
OtherChildren ==
    { << Characters("c") >>,
      << EndElement("Code") >>,
      Element("Type", Element("Code", << >>)),
      Element("Detail", Element("Code", << >>)),
      Element("Message", << Characters("m"), Characters("m") >>) }

RECURSIVE Concat(_)
Concat(ss) == IF ss = << >> THEN << >> ELSE Head(ss) \o Concat(Tail(ss))

\* the bodies of up to MaxChildren children
Bodies == { Concat(ss) : ss \in SeqsUpTo(CleanChildren \cup OtherChildren, MaxChildren) }

\* the documents, and what the reader yields when one is cut short
ErrorStreams ==
    LET whole == { Element(t, b) : t \in ErrorTags, b \in Bodies }
    IN  whole \cup UNION { CutShort(s) : s \in whole }

ErrorInit ==
    /\ events \in ErrorStreams
    /\ xml_stack = events
    /\ x_pc = "idle"
    /\ x_op = "none"
    /\ x_arg = ""
    /\ x_ret = None
    /\ x_at = << >>
    /\ deep = 0
    /\ obj = XmlErrorDefault
    /\ g_delivered = << >>
    /\ OthersUnused

\* deserialize returns r
DeserializeReturns(r) ==
    /\ x_pc' = "idle"
    /\ x_ret' = r

\* XmlErrorDeserializer::deserialize(tag_name, &mut stack) is called:
\* start_element(tag_name, stack)?, then obj = XmlError::default()
call_deserialize(tag_name) ==
    /\ x_pc = "idle"
    /\ x_op = "none"
    /\ x_op' = "deserialize"
    /\ x_arg' = tag_name
    /\ x_at' = xml_stack
    /\ LET s == start_element(tag_name, xml_stack)
       IN  /\ xml_stack' = s.stack
           /\ IF s.ok
              THEN /\ x_pc' = "fields"
                   /\ x_ret' = None
              ELSE DeserializeReturns([ok |-> FALSE, value |-> XmlErrorDefault,
                                       error |-> s.error])
    /\ obj' = XmlErrorDefault
    /\ UNCHANGED <<events, deep, g_delivered, otherVars>>

\* one iteration of the loop, up to the call of skip_tree if it makes one
deserialize_loop ==
    /\ x_pc = "fields"
    /\ \E r \in {deserialize_field(xml_stack, obj)} :
           /\ xml_stack' = r.stack
           /\ obj' = r.obj
           /\ IF r.to = "return"
              THEN DeserializeReturns([ok |-> FALSE, value |-> XmlErrorDefault,
                                       error |-> r.error])
              ELSE /\ x_pc' = r.to
                   /\ x_ret' = x_ret
           \* skip_tree(stack) is called: deep = 0
           /\ deep' = IF r.to = "skip_tree" THEN 0 ELSE deep
           /\ x_at' = IF r.to = "skip_tree" THEN r.stack ELSE x_at
    /\ UNCHANGED <<events, x_op, x_arg, g_delivered, otherVars>>

\* after the loop: end_element(tag_name, stack)?, then Ok(obj)
deserialize_end ==
    /\ x_pc = "end"
    /\ LET e == end_element(x_arg, xml_stack)
       IN  /\ xml_stack' = e.stack
           /\ DeserializeReturns(IF e.ok
                                 THEN [ok |-> TRUE, value |-> obj, error |-> NoError]
                                 ELSE [ok |-> FALSE, value |-> XmlErrorDefault,
                                       error |-> e.error])
    /\ UNCHANGED <<events, x_op, x_arg, x_at, deep, obj, g_delivered, otherVars>>

ErrorNext ==
    \/ \E tag_name \in ErrorTags : call_deserialize(tag_name)
    \/ deserialize_loop
    \/ skip_tree_loop
    \/ deserialize_end

\* the running call takes its next step
ErrorSpec ==
    /\ ErrorInit /\ [][ErrorNext]_vars
    /\ WF_vars(deserialize_loop) /\ WF_vars(skip_tree_loop) /\ WF_vars(deserialize_end)

----------------------------------------------------------------------------
(* Claims about the cursor and the functions over it, checked under XmlSpec *)

\* the function called last has returned and was op
Did(op) == x_pc = "idle" /\ x_op = op

\* C21: the cursor contract of XmlResponse.  peek consumes no item but
\* whitespace and a second peek shows the same item and consumes nothing;
\* next returns the item the peek right before it showed; neither hands out
\* a Whitespace item; the items next hands out are the non-whitespace items
\* of the stream, in order, none lost and none twice.
C21_TokenCursor ==
    /\ [](Did("peek") =>
            /\ Significant(xml_stack) = Significant(x_at)
            /\ peek(xml_stack).stack = xml_stack
            /\ peek(xml_stack).value = x_ret.value
            /\ next(xml_stack).value = x_ret.value)
    /\ []((Did("peek") \/ Did("next")) =>
            (IsSome(x_ret.value) => Unwrap(x_ret.value).kind # "Whitespace"))
    /\ [](g_delivered \o Significant(xml_stack) = Significant(events))
    /\ [][(Did("peek") /\ call_next) => x_ret'.value = x_ret.value]_vars
    /\ [][(Did("peek") /\ call_peek) => UNCHANGED <<xml_stack, x_ret>>]_vars
    /\ [][call_next =>
            g_delivered' = IF x_ret'.value = None THEN g_delivered
                           ELSE Append(g_delivered, Unwrap(x_ret'.value))]_vars

\* C21 witness: with whitespace before each of two items, next has handed
\* out the two items and no whitespace
C21_Witness ==
    /\ Did("next")
    /\ events = << Whitespace, StartElement("A", << >>), Whitespace, Characters("c") >>
    /\ x_at = << Whitespace, Characters("c") >>
    /\ x_ret.value = Some(Characters("c"))
    /\ g_delivered = << StartElement("A", << >>), Characters("c") >>
    /\ xml_stack = << >>

\* the first non-whitespace item of the stack the last function was called on
NextItem == peek(x_at).value

\* the last function was start_element or end_element and has returned
DidElement == Did("start_element") \/ Did("end_element")

\* start_element or end_element returned Ok exactly when the first
\* non-whitespace item was a tag of its kind with the name asked for
OkExactlyOnExpectedTag ==
    /\ Did("start_element") =>
          (x_ret.ok <=> /\ IsSome(NextItem)
                        /\ Unwrap(NextItem).kind = "StartElement"
                        /\ Unwrap(NextItem).name = x_arg)
    /\ Did("end_element") =>
          (x_ret.ok <=> /\ IsSome(NextItem)
                        /\ Unwrap(NextItem).kind = "EndElement"
                        /\ Unwrap(NextItem).name = x_arg)

\* C22 as stated: Ok exactly on the expected tag, and in every case, the
\* end of the stream included, exactly one non-whitespace item is consumed
C22_AsStated ==
    DidElement =>
        /\ OkExactlyOnExpectedTag
        /\ Len(Significant(x_at)) = Len(Significant(xml_stack)) + 1

\* C22: consuming a tag by expected name.  start_element(name) returns Ok
\* exactly when the first non-whitespace item is a start tag named name, and
\* end_element(name) exactly when it is an end tag named name; otherwise
\* (another name, another kind of item, a reader error, the end of the
\* stream) it returns an error.  When a non-whitespace item is left the call
\* consumes the whitespace before it and that item, whether it returns Ok or
\* an error; at the end of the stream there is no item to consume and only
\* the whitespace left is consumed.
C22_ExpectedName ==
    DidElement =>
        /\ OkExactlyOnExpectedTag
        /\ IsSome(NextItem) =>
              /\ xml_stack = Tail(skip_whitespace(x_at))
              /\ Len(Significant(x_at)) = Len(Significant(xml_stack)) + 1
        /\ NextItem = None => (~x_ret.ok /\ xml_stack = << >>)

\* C22 witness: start_element("A") at whitespace and a start tag named B
\* returned an error and consumed the whitespace and the tag
C22_Witness ==
    /\ Did("start_element")
    /\ x_arg = "A"
    /\ x_at = << Whitespace, StartElement("B", << <<"k", "v">>, <<"k", "w">> >>),
                 Whitespace, EndElement("B") >>
    /\ ~x_ret.ok
    /\ x_ret.error.msg = "START Expected"
    /\ xml_stack = << Whitespace, EndElement("B") >>

\* C22, another case: end_element("B") at the end tag named B returned Ok
C22_EndTagAccepted ==
    /\ Did("end_element")
    /\ x_arg = "B"
    /\ x_at = << EndElement("B"), Characters("c") >>
    /\ x_ret.ok
    /\ xml_stack = << Characters("c") >>

\* C22, another case: at the end of the stream start_element returned an
\* error and there was no item to consume
C22_EndOfStream ==
    /\ Did("start_element")
    /\ x_at = << Whitespace >>
    /\ ~x_ret.ok
    /\ x_ret.error.got = None
    /\ xml_stack = << >>

----------------------------------------------------------------------------
(* Claims about skip_tree, checked under SkipSpec *)

\* Where the element that opens at the first tag of s ends, by the names of
\* the tags: the index of the end tag that closes it when every end tag up
\* to there closes the element opened last; 0 when the stream ends with an
\* element still open; -1 when an end tag closes nothing or another element.
RECURSIVE MatchingEnd(_, _, _)
MatchingEnd(s, i, open) ==
    IF i > Len(s) THEN 0
    ELSE IF s[i].kind = "StartElement"
    THEN MatchingEnd(s, i + 1, Append(open, s[i].name))
    ELSE IF s[i].kind = "EndElement"
    THEN IF open = << >> \/ open[Len(open)] # s[i].name THEN -1
         ELSE IF Len(open) = 1 THEN i
         ELSE MatchingEnd(s, i + 1, SubSeq(open, 1, Len(open) - 1))
    ELSE MatchingEnd(s, i + 1, open)

\* the first non-whitespace item of s is a start tag
AtStartTag(s) == IsSome(peek(s).value) /\ Unwrap(peek(s).value).kind = "StartElement"

\* C23: skip_tree.  Called when the next item is the start tag of a
\* well-nested element, skip_tree consumes that tag, everything nested in it
\* and the end tag that closes it, and nothing after that tag, at every
\* depth of nesting; when the stream ends inside the element it consumes the
\* rest of the stream and returns.  Every iteration of its loop consumes an
\* item or leaves the loop, and every call returns.
C23_SkipTree ==
    /\ [](Did("skip_tree") /\ AtStartTag(x_at) =>
            LET end == MatchingEnd(x_at, 1, << >>)
            IN  /\ end > 0 => xml_stack = SubSeq(x_at, end + 1, Len(x_at))
                /\ end = 0 => xml_stack = << >>)
    /\ [][skip_tree_loop =>
            \/ x_pc' = "idle"
            \/ Len(Significant(xml_stack')) < Len(Significant(xml_stack))]_vars
    /\ (x_pc = "skip_tree") ~> (x_pc = "idle")

\* C23 witness: an element nested three deep was skipped and the whitespace
\* and the characters after it are left
C23_Witness ==
    /\ Did("skip_tree")
    /\ x_at = Nested(3) \o << Whitespace, Characters("c") >>
    /\ xml_stack = << Whitespace, Characters("c") >>

\* C23, another case: the stream ends inside the element
C23_Truncated ==
    /\ Did("skip_tree")
    /\ x_at = << StartElement("A", << >>), StartElement("B", << <<"k", "v">>, <<"k", "w">> >>),
                 EndElement("B"), ReaderError >>
    /\ xml_stack = << >>

\* C23, another case: an element between siblings is skipped alone
C23_Sibling ==
    /\ Did("skip_tree")
    /\ x_at = << Whitespace, StartElement("A", << >>), EndElement("A"), StartElement("A", << >>) >>
    /\ xml_stack = << StartElement("A", << >>) >>

----------------------------------------------------------------------------
(* Claims about the branches of the loop of parse_internal, under LineSpec *)

\* the line starts with a space or a tab and holds another character
IndentedText ==
    /\ line # << >>
    /\ line[1] \in {" ", "\t"}
    /\ \E i \in 1..Len(line) : line[i] \notin {" ", "\t"}

\* C24: the order of classification in the file parser.  A line is taken
\* as comment or blank first, then as a section header, then ignored while
\* no valid profile is open, then taken as a continuation, then as a
\* key-value pair, and as unrecognized last.  A line is taken as a header only
\* if its first character is '['.  A line whose first character is a space
\* or a tab and that holds another character is taken as a continuation
\* (ignored while no valid profile is open) even when it looks like a header,
\* a comment or a key-value pair, and never as any of those.
C24_ClassificationOrder ==
    applied =>
        \A f \in {"credentials", "config"}, inv \in BOOLEAN :
            LET header == IF f = "credentials" THEN r_cred ELSE r_conf
                kind == r_kind[f, inv]
            IN  /\ kind = "comment" <=> r_comment
                /\ kind = "header" <=> (~r_comment /\ IsSome(header))
                /\ kind = "header" => (line # << >> /\ line[1] = "[")
                /\ kind = "ignored" <=> (~r_comment /\ header = None /\ inv)
                /\ kind = "continuation" <=>
                       (~r_comment /\ header = None /\ ~inv /\ IsSome(r_cont))
                /\ kind = "property" <=>
                       (~r_comment /\ header = None /\ ~inv /\ r_cont = None
                        /\ IsSome(r_prop))
                /\ IndentedText =>
                       /\ ~r_comment /\ header = None /\ IsSome(r_cont)
                       /\ kind = IF inv THEN "ignored" ELSE "continuation"

\* C24 witness: " a=a" spells a key-value pair and is taken as a
\* continuation
C24_Witness ==
    /\ applied
    /\ line = <<" ", "a", "=", "a">>
    /\ IsSome(r_prop)
    /\ r_cont = Some(<<"a", "=", "a">>)
    /\ r_kind["credentials", FALSE] = "continuation"
    /\ r_kind["config", FALSE] = "continuation"

\* C24, another case: " [a]" is a continuation in both files, "[a]" a header
C24_LooksLikeHeader ==
    /\ applied
    /\ line = <<" ", "[", "a", "]">>
    /\ r_cred = None /\ r_conf = None
    /\ r_kind["credentials", FALSE] = "continuation"

\* C24, another case: " ;a" is a continuation, not a comment
C24_LooksLikeComment ==
    /\ applied
    /\ line = <<"\t", ";", "a">>
    /\ ~r_comment
    /\ r_kind["config", FALSE] = "continuation"
    /\ r_kind["config", TRUE] = "ignored"

----------------------------------------------------------------------------
(* Claims about the pending pair and the parser locals, checked under Spec *)

\* the step ends the file without an I/O error
EndsFile == pc = "lines" /\ pc' # "lines" /\ file \notin g_io'

\* the step adds the pair (k, v) to profile p unless p has a value for k, and
\* changes nothing else in the store
AddsIfAbsent(p, k, v) ==
    /\ DOMAIN profiles' = DOMAIN profiles \cup {p}
    /\ \A q \in DOMAIN profiles \ {p} : profiles'[q] = profiles[q]
    /\ DOMAIN profiles'[p] =
          (IF contains_key(profiles, p) THEN DOMAIN profiles[p] ELSE {}) \cup {k}
    /\ \A j \in DOMAIN profiles'[p] :
          profiles'[p][j] =
             IF contains_key(profiles, p) /\ contains_key(profiles[p], j)
             THEN profiles[p][j] ELSE v

\* C25: no accepted pair is lost or misattributed.  In a file read without
\* I/O error the pair of a key-value line accepted while a valid profile is
\* open stays pending, under that profile, until the next header candidate
\* (valid or malformed), the next key-value line or the end of the file; that
\* step stores it under the profile that was open when the line was read,
\* unless the profile already has a value for the key, before the profile or
\* the pending pair changes.
C25_NoPairLost ==
    /\ []((pc = "lines" /\ IsSome(g_pending)) =>
            /\ IsSome(g_open)
            /\ current_profile = g_open
            /\ current_key = Some(Unwrap(g_pending).key)
            /\ current_value = Some(Unwrap(g_pending).val))
    /\ [][((Reads("header") \/ Reads("kv") \/ EndsFile) /\ IsSome(g_pending)) =>
            AddsIfAbsent(Unwrap(g_open), Unwrap(g_pending).key, Unwrap(g_pending).val)
         ]_vars
    /\ [][(Reads("kv") /\ IsSome(g_open)) =>
            /\ IsSome(g_pending')
            /\ current_profile' = g_open
            /\ current_key' = Some(Unwrap(g_pending').key)
         ]_vars

\* C25 witness: the last pair of the credentials file, continued by a line,
\* was stored for profile p at the end of the file
C25_Witness ==
    /\ pc = "open" /\ file = "config"
    /\ cred_result = "ok"
    /\ g_last = "cont"
    /\ g_flush = "inserted"
    /\ g_open = Some(P)
    /\ g_pending = Some([key |-> AWS_SECRET_ACCESS_KEY, val |-> S1 \o X])
    /\ profiles = (P :> (AWS_ACCESS_KEY_ID :> A1 @@ AWS_SECRET_ACCESS_KEY :> (S1 \o X)))

\* C25, another case: a malformed header stored the pending pair of the
\* profile open before it
C25_BeforeMalformedHeader ==
    /\ pc = "lines"
    /\ g_last = "header" /\ g_bad = "bad"
    /\ g_flush = "inserted"
    /\ current_profile = None
    /\ profiles = (P :> (AWS_ACCESS_KEY_ID :> A1))

\* C26: merging is per key, not per profile.  Every change of the store
\* adds one key to one profile and keeps every other key of that profile and
\* every other profile, so the properties of a profile declared in several
\* sections (of one file, or of the credentials file and of the config
\* file) are the union of the keys of its sections, each with its first
\* value; a key only the config file defines is added to a profile the
\* credentials file defined, whose keys all stay, and it is part of what the
\* request resolves.
C26_MergePerKey ==
    /\ [][(Parsing /\ profiles' # profiles) =>
            /\ IsSome(g_open) /\ IsSome(g_pending)
            /\ AddsIfAbsent(Unwrap(g_open), Unwrap(g_pending).key, Unwrap(g_pending).val)
         ]_vars
    /\ [][(/\ file = "config"
            /\ (Reads("header") \/ Reads("kv") \/ EndsFile)
            /\ IsSome(g_pending)
            /\ contains_key(g_cred, Unwrap(g_open))) =>
            LET p == Unwrap(g_open)
                k == Unwrap(g_pending).key
            IN  /\ contains_key(profiles'[p], k)
                /\ ~ contains_key(profiles[p], k) => profiles'[p][k] = Unwrap(g_pending).val
                /\ \A j \in DOMAIN g_cred[p] :
                      contains_key(profiles'[p], j) /\ profiles'[p][j] = g_cred[p][j]
         ]_vars
    /\ [][(Resolves /\ contains_key(profiles, profile)) =>
            /\ contains_key(profiles[profile], AWS_ACCESS_KEY_ID)
                  => outcome'.kind \in {"credentials", "missing secret key"}
            /\ contains_key(profiles[profile], AWS_SECRET_ACCESS_KEY)
                  => outcome'.kind \in {"credentials", "missing access key"}
         ]_vars

\* C26 witness: the credentials file gave profile p its access key only, the
\* config file its secret key, and the request resolved both
C26_Witness ==
    /\ pc = "done"
    /\ profile = P
    /\ g_cred = (P :> (AWS_ACCESS_KEY_ID :> A1))
    /\ g_io = {}
    /\ outcome = AwsCredentials(A1, S1, None)

\* C26, another case: two sections of profile p in the credentials file,
\* one with the access key and one with the secret key
C26_TwoSections ==
    /\ pc = "open" /\ file = "config"
    /\ g_cred = (P :> (AWS_ACCESS_KEY_ID :> A1 @@ AWS_SECRET_ACCESS_KEY :> S1))
    /\ g_sec = (P :> NoSection)
    /\ g_clean

\* C27: the parser state after every line.  invalid_profile is set exactly
\* when no profile is open; the pending key is there exactly when the
\* pending value is; a pair is pending only while a profile is open, so no
\* call of add_property_if_any drops a pending pair for lack of a profile.
C27_ParserState ==
    /\ [](/\ invalid_profile <=> current_profile = None
          /\ IsSome(current_key) <=> IsSome(current_value)
          /\ IsSome(current_key) => IsSome(current_profile))
    /\ [][(/\ Reads("header") \/ Reads("kv") \/ EndsFile
           /\ IsSome(current_key)) =>
            /\ IsSome(current_profile)
            /\ contains_key(profiles', Unwrap(current_profile))
            /\ contains_key(profiles'[Unwrap(current_profile)], Unwrap(current_key))
         ]_vars

\* C27 witness: after a malformed header and the valid header after it, a
\* pair is pending under the open profile
C27_Witness ==
    /\ pc = "lines"
    /\ g_bad = "recovered"
    /\ g_last = "cont"
    /\ ~ invalid_profile
    /\ current_profile = Some(P)
    /\ current_key = Some(AWS_ACCESS_KEY_ID)
    /\ current_value = Some(A1 \o X)

\* C27, another case: a key-value line read in a malformed section leaves
\* nothing pending
C27_NothingPending ==
    /\ pc = "lines"
    /\ g_bad = "ignoring"
    /\ g_last = "kv"
    /\ invalid_profile
    /\ current_profile = None
    /\ current_key = None
    /\ current_value = None
    /\ profiles # EmptyMap

\* C28: every profile of the store has a property.  A valid header that no
\* accepted key-value line follows creates no entry: a profile enters the
\* store only with a pair, and a request for a profile that was declared
\* only in that way resolves to profile-not-found; the error for the
\* missing access and secret key is given only for a profile that has
\* properties.
C28_NoEmptyProfile ==
    /\ [](\A p \in DOMAIN profiles : DOMAIN profiles[p] # {})
    /\ [](\A n \in DOMAIN g_sec :
            (Parsing /\ g_sec[n].status = "open" /\ ~ contains_key(g_cred, n))
               => ~ contains_key(profiles, n))
    /\ [][(Parsing /\ DOMAIN profiles' # DOMAIN profiles) => IsSome(g_pending)]_vars
    /\ [][Resolves =>
            /\ ~ contains_key(profiles, profile) => outcome' = Error("profile not found", profile)
            /\ outcome'.kind = "missing access and secret key"
                  => contains_key(profiles, profile) /\ DOMAIN profiles[profile] # {}
         ]_vars

\* C28 witness: both files were read, the last line was the valid header of
\* the requested profile p, and the store has no entry
C28_Witness ==
    /\ pc = "resolve"
    /\ profile = P
    /\ g_io = {}
    /\ g_last = "header"
    /\ g_open = Some(P)
    /\ g_clean
    /\ profiles = EmptyMap

\* C28, another case: the request for such a profile gave profile-not-found
C28_NotFound ==
    /\ pc = "done"
    /\ profile = P
    /\ g_io = {}
    /\ g_cred = EmptyMap
    /\ outcome = Error("profile not found", P)

\* C29: the parser state does not carry over between files.  Each parse
\* starts with no profile open, invalid_profile set and no pending pair; a
\* line of the config file read before its first valid header changes
\* neither the store nor the locals, also when the credentials file ended
\* inside a valid section; the store alone is shared by the two parses.
C29_FreshParserState ==
    /\ []((pc = "open" \/ (pc = "lines" /\ no = 0)) =>
            /\ current_profile = None
            /\ invalid_profile
            /\ current_key = None
            /\ current_value = None)
    /\ []((pc = "open" /\ file = "config") => profiles = g_cred)
    /\ [][(ReadsNoHeader /\ g_open = None) =>
            /\ profiles' = profiles
            /\ current_profile' = None /\ invalid_profile'
            /\ current_key' = None /\ current_value' = None
         ]_vars

\* C29 witness: the credentials file ended inside the section of profile p;
\* the first line of the config file, a key-value line, was read and the
\* store is what the credentials file left
C29_Witness ==
    /\ pc = "lines" /\ file = "config" /\ no = 1
    /\ g_last = "kv"
    /\ g_wf = (P :> [status |-> "full", ak |-> A1, sk |-> S1])
    /\ profiles = g_cred
    /\ profiles = (P :> (AWS_ACCESS_KEY_ID :> A1 @@ AWS_SECRET_ACCESS_KEY :> S1))
    /\ current_profile = None
    /\ current_key = None

\* C29, another case: a continuation line first in the config file
C29_ContinuationFirst ==
    /\ pc = "lines" /\ file = "config" /\ no = 1
    /\ g_last = "cont"
    /\ g_wf # EmptyMap
    /\ profiles = g_cred
    /\ current_value = None

----------------------------------------------------------------------------
(* Claims about XmlErrorDeserializer::deserialize, checked under ErrorSpec *)

\* the names of the elements the loop reads as fields
KnownFields == {"Type", "Code", "Message", "Detail"}

\* the loop is at the start tag of an element it does not know
AtUnknownElement ==
    /\ x_pc = "fields"
    /\ AtStartTag(xml_stack)
    /\ Unwrap(peek(xml_stack).value).name \notin KnownFields

\* s is a sequence of clean children
RECURSIVE IsCleanBody(_)
IsCleanBody(s) ==
    \/ s = << >>
    \/ \E c \in CleanChildren :
          /\ Len(c) <= Len(s)
          /\ SubSeq(s, 1, Len(c)) = c
          /\ IsCleanBody(SubSeq(s, Len(c) + 1, Len(s)))

\* the call was made on the whole element named x_arg, with clean children
OnCleanElement ==
    /\ Len(events) >= 2
    /\ Head(events) = StartElement(x_arg, << >>)
    /\ events[Len(events)] = EndElement(x_arg)
    /\ IsCleanBody(SubSeq(events, 2, Len(events) - 1))

\* deserialize is running, in its loop, in skip_tree or after the loop
Deserializing == x_op = "deserialize" /\ x_pc \in {"fields", "skip_tree", "end"}

\* C30: XmlErrorDeserializer::deserialize(tag_name, stack).  Every call
\* returns: each iteration of the loop consumes an item or leaves the
\* loop.  A child element the loop does not know is skipped as a whole
\* subtree and leaves the fields of the result as they are.  The loop goes on
\* to the code after it only at an end tag named Error, which it does not
\* consume; so a call with another tag name never returns a value, and on a
\* well-formed element of that name it returns the error 'unexpected end
\* element', while with the tag name Error it returns the fields of the
\* children of the element.
C30_ErrorDeserializer ==
    /\ Deserializing ~> Did("deserialize")
    /\ [][deserialize_loop =>
            \/ x_pc' # "fields"
            \/ Len(Significant(xml_stack')) < Len(Significant(xml_stack))]_vars
    /\ [][(deserialize_loop /\ AtUnknownElement) => (x_pc' = "skip_tree" /\ obj' = obj)]_vars
    /\ [][(Deserializing /\ skip_tree_loop) =>
            /\ obj' = obj
            /\ Len(Significant(xml_stack')) < Len(Significant(xml_stack)) \/ x_pc' = "fields"
            /\ x_pc' = "fields" =>
                  LET end == MatchingEnd(x_at, 1, << >>)
                  IN  /\ Len(Significant(xml_stack')) < Len(Significant(x_at))
                      /\ end > 0 => xml_stack' = SubSeq(x_at, end + 1, Len(x_at))
                      /\ end = 0 => xml_stack' = << >>]_vars
    /\ [][(x_pc = "fields" /\ x_pc' = "end") =>
            /\ peek(xml_stack).value = Some(EndElement("Error"))
            /\ xml_stack' = skip_whitespace(xml_stack)]_vars
    /\ [](Did("deserialize") =>
            /\ x_arg # "Error" => ~ x_ret.ok
            /\ (x_arg # "Error" /\ OnCleanElement) =>
                  x_ret.error.msg = "unexpected end element"
            /\ (x_arg = "Error" /\ OnCleanElement) =>
                  /\ x_ret.ok
                  /\ xml_stack = << >>
                  /\ x_ret.value.error_type \in {"", "t"}
                  /\ x_ret.value.code \in {"", "c"}
                  /\ x_ret.value.message \in {"", "m"}
                  /\ x_ret.value.detail \in {None, Some("d")})

\* C30 witness: called with the tag name Fault on <Fault><Code>c</Code>
\* </Fault>, deserialize read the field and returned the error at the end
\* tag
C30_Witness ==
    /\ Did("deserialize")
    /\ x_arg = "Fault"
    /\ events = Element("Fault", Element("Code", << Characters("c") >>))
    /\ ~ x_ret.ok
    /\ x_ret.error.msg = "unexpected end element"
    /\ obj.code = "c"
    /\ xml_stack = << EndElement("Fault") >>

\* C30, another case: called with Error, an element it does not know that
\* holds a Code element was skipped and the Code after it was read
C30_UnknownSkipped ==
    /\ Did("deserialize")
    /\ x_arg = "Error"
    /\ events = Element("Error",
                        Element("RequestId", << Whitespace >> \o Element("Code", << Characters("z") >>))
                        \o Element("Code", << Characters("c") >>))
    /\ x_ret.ok
    /\ x_ret.value = XmlError("", "c", "", None)

\* C30, another case: the document is cut short inside an element the loop
\* does not know; the call returns the error for the end of the input
C30_CutShort ==
    /\ Did("deserialize")
    /\ x_arg = "Error"
    /\ events = << StartElement("Error", << >>), StartElement("RequestId", << >>), Whitespace >>
    /\ ~ x_ret.ok
    /\ x_ret.error.msg = "unexpected end of XML input"

----------------------------------------------------------------------------
(* A claim about find_start_element, checked under FindSpec                *)

\* what is left of the items s from the first start tag or reader error on
RECURSIVE FromStartTag(_)
FromStartTag(s) ==
    IF s = << >> THEN << >>
    ELSE IF Head(s).kind \in {"StartElement", "Err"} THEN s
    ELSE FromStartTag(Tail(s))

\* the next item is a reader error
AtReaderError(s) == IsSome(peek(s).value) /\ Unwrap(peek(s).value).kind = "Err"

\* C31: find_start_element.  A call consumes the items before the first start
\* tag or reader error and stops there, or at the end of the stream when
\* there is none: when it has returned the next item is a start tag, a
\* reader error or nothing, and that item was not consumed.  Called when the
\* next item is a start tag it consumes nothing but whitespace and the same
\* start tag is still the next item, so a second call right after a call
\* changes nothing.  Every iteration of its loop consumes an item or leaves
\* the loop, and every call returns.
C31_FindStartElement ==
    /\ [](Did("find_start_element") =>
            /\ xml_stack = FromStartTag(x_at)
            /\ AtStartTag(xml_stack) \/ AtReaderError(xml_stack) \/ peek(xml_stack).value = None
            /\ AtStartTag(x_at) =>
                    /\ Significant(xml_stack) = Significant(x_at)
                    /\ peek(xml_stack).value = peek(x_at).value)
    /\ [][find_start_element_loop /\ AtStartTag(xml_stack) =>
            /\ x_pc' = "idle"
            /\ Significant(xml_stack') = Significant(xml_stack)
            /\ g_delivered' = g_delivered]_vars
    /\ [][find_start_element_loop =>
            \/ x_pc' = "idle"
            \/ Len(Significant(xml_stack')) < Len(Significant(xml_stack))]_vars
    /\ (x_pc = "find_start_element") ~> (x_pc = "idle")

\* C31 witness: a second call right after the call that consumed the
\* characters and the whitespace before a start tag left the stack as it was
C31_Witness ==
    /\ Did("find_start_element")
    /\ events = << Characters("c"), Whitespace, StartElement("A", << >>), EndElement("A") >>
    /\ g_delivered = << Characters("c") >>
    /\ x_at = << StartElement("A", << >>), EndElement("A") >>
    /\ xml_stack = x_at

\* C31, another case: end tags and characters before a start tag are consumed
C31_Skipped ==
    /\ Did("find_start_element")
    /\ x_at = << EndElement("A"), Characters("c"), Whitespace, StartElement("B", << <<"k", "v">>, <<"k", "w">> >>) >>
    /\ xml_stack = << StartElement("B", << <<"k", "v">>, <<"k", "w">> >>) >>

\* C31, another case: the call stops at a reader error and leaves it
C31_AtError ==
    /\ Did("find_start_element")
    /\ x_at = << Characters("c"), EndElement("A"), ReaderError >>
    /\ xml_stack = << ReaderError >>

\* C31, another case: without a start tag the stream is consumed to its end
C31_EndOfStream ==
    /\ Did("find_start_element")
    /\ x_at = << EndElement("B"), Characters("c"), Whitespace >>
    /\ xml_stack = << >>

====
